---- MODULE Spec2Model ----
(***************************************************************************)
(* Crime-AI scoring core: CrimePatternAnalyzer (backend/crime_analyzer.py). *)
(* The analyzer is a pure function of two input streams, the per-frame      *)
(* object detections and the per-clip action predictions.  Numbers are     *)
(* exact rationals <<numerator, denominator>> in lowest terms; labels are  *)
(* strings and keyword matching is substring search on them.               *)
(***************************************************************************)
EXTENDS Integers, Sequences, FiniteSets, TLC

VARIABLES
    detections,     \* argument of generate_crime_report: list of frame_info
    actions,        \* argument of generate_crime_report: list of clips
    report,         \* value returned by generate_crime_report
    pc,             \* "start" before the call, "done" after it
    previous_threat_level, \* threat_level of the caller's previous report
    action_labels,  \* arguments of _calculate_violence_intensity (two labels)
    probability,    \* argument of _calculate_violence_intensity
    intensities,    \* values returned for the two labels
    frame_objects,  \* run_detection_model: the boxes the detector gave for a frame
    permuted_objects, \* the same boxes listed in another order
    filtered,       \* value returned by _filter_detections_by_confidence
    kept,           \* value returned by _apply_nms for frame_objects
    kept_permuted,  \* value returned by _apply_nms for permuted_objects
    events,         \* value returned by evaluate_unlawful_events
    analyzer,       \* attributes of the CrimePatternAnalyzer instance in use
    calls,          \* arguments and results of the scoring calls made so far
    frame_paths,    \* the frame files given to motion analysis and action recognition
    motion_analysis, \* value returned by analyze_motion_patterns
    action_clips,   \* value returned by run_action_recognition
    motion_scores,  \* argument of _detect_chase_sequences
    chase_sequences, \* value returned by _detect_chase_sequences
    cache,          \* redis: the value stored under result:<hash>, per hash
    frame_dirs,     \* /app/frames/<hash>: whether the directory holds the frames
    result_files,   \* /app/results/<hash>.json: the value written, per hash
    uploads,        \* /app/uploads: the runs whose uploaded file exists
    runs,           \* per process_video run: position, locals and returned value
    stores,         \* per hash: the values cache_set has stored, in order
    cache_seen      \* per run: what the run's cache_get found, and when

analyzerVars == <<detections, actions, report, previous_threat_level>>
intensityVars == <<action_labels, probability, intensities>>
detectionVars == <<frame_objects, permuted_objects, filtered, kept, kept_permuted>>
scoringVars == <<events, analyzer, calls>>
motionVars == <<frame_paths, motion_analysis, action_clips, motion_scores, chase_sequences>>
pipelineVars == <<cache, frame_dirs, result_files, uploads, runs, stores, cache_seen>>
stageVars == <<detectionVars, scoringVars, motionVars, pipelineVars>>
vars == <<detections, actions, report, pc, previous_threat_level,
          action_labels, probability, intensities, stageVars>>

-----------------------------------------------------------------------------
(* Bounds of the input sets.                                                *)

\* frames per detections list in the report specification
MaxFrames == 2
\* clips per actions list in the report specification
MaxClips == 2
\* frames per detections list in the weapon specification
WeaponMaxFrames == 3
\* clips per actions list in the weapon specification
WeaponMaxClips == 2
\* frames per detections list in the theft specification
TheftMaxFrames == 10
\* backpack objects per detections list in the theft specification
MaxSightings == 3
\* probabilities k/ProbDen, k in 0..ProbDen, in the intensity specification
ProbDen == 10
\* boxes per frame in the confidence-filter specification
MaxFilterObjects == 2
\* boxes per frame in the suppression specification
MaxNmsObjects == 3
\* frames per detections list in the events specification
EventMaxFrames == 2
\* predictions per clip in the events specification
EventMaxActions == 2
\* scoring calls in the call-sequence specification
MaxCalls == 2
\* frame files in the motion specification
MaxMotionFrames == 9
\* frames of any kind after the readable start of a long video
MaxTrailingFrames == 5
\* motion scores in the chase specification
MaxScores == 7
\* process_video runs in the pipeline specification
MaxRuns == 3
\* analyze_video_task jobs submitted at once
MaxTasks == 1
\* frames per detections list in the proximity specification
ProximityMaxFrames == 2
\* predictions of the clip in the action-event specification
MaxPredictions == 2
\* frames and clips in the violence-score specification
ViolenceMaxFrames == 3
ViolenceMaxClips == 3

-----------------------------------------------------------------------------
(* Python float arithmetic, as exact rationals.                             *)

RECURSIVE GCD(_, _)
GCD(a, b) == IF b = 0 THEN a ELSE GCD(b, a % b)

Abs(n) == IF n < 0 THEN -n ELSE n

Rat(n, d) == LET g == GCD(Abs(n), d) IN <<n \div g, d \div g>>

Zero == <<0, 1>>
One == <<1, 1>>

RAdd(a, b) == Rat(a[1] * b[2] + b[1] * a[2], a[2] * b[2])
RMul(a, b) == Rat(a[1] * b[1], a[2] * b[2])
RDivInt(a, k) == Rat(a[1], a[2] * k)
RLt(a, b) == a[1] * b[2] < b[1] * a[2]
RGt(a, b) == RLt(b, a)
\* Python min(a, b): b if b < a else a
RMin(a, b) == IF RLt(b, a) THEN b ELSE a
RMax(a, b) == IF RGt(b, a) THEN b ELSE a

RECURSIVE RSum(_)
RSum(s) == IF Len(s) = 0 THEN Zero ELSE RAdd(s[1], RSum(Tail(s)))

RECURSIVE RMaxSeq(_)
RMaxSeq(s) == IF Len(s) = 1 THEN s[1] ELSE RMax(s[1], RMaxSeq(Tail(s)))

\* max(1, n)
Max1(n) == IF n < 1 THEN 1 ELSE n

RECURSIVE MinInt(_)
MinInt(s) == IF Len(s) = 1 THEN s[1]
             ELSE LET m == MinInt(Tail(s)) IN IF m < s[1] THEN m ELSE s[1]

RECURSIVE MaxInt(_)
MaxInt(s) == IF Len(s) = 1 THEN s[1]
             ELSE LET m == MaxInt(Tail(s)) IN IF m > s[1] THEN m ELSE s[1]

Map(s, F(_)) == [i \in 1..Len(s) |-> F(s[i])]

-----------------------------------------------------------------------------
(* Python str.lower() and the "kw in label" substring test.                 *)

UpperChars == "ABCDEFGHIJKLMNOPQRSTUVWXYZ"
LowerChars == "abcdefghijklmnopqrstuvwxyz"

LowerChar(c) ==
    IF \E i \in 1..26 : SubSeq(UpperChars, i, i) = c
    THEN LET i == CHOOSE j \in 1..26 : SubSeq(UpperChars, j, j) = c
         IN SubSeq(LowerChars, i, i)
    ELSE c

RECURSIVE Lower(_)
Lower(s) == IF Len(s) = 0 THEN ""
            ELSE LowerChar(SubSeq(s, 1, 1)) \o Lower(SubSeq(s, 2, Len(s)))

\* kw in label
Contains(label, kw) ==
    \E i \in 1..(Len(label) - Len(kw) + 1) : SubSeq(label, i, i + Len(kw) - 1) = kw

\* any(kw in label for kw in keywords)
AnyKeyword(label, keywords) == \E kw \in keywords : Contains(label, kw)

\* The labels that occur in the input sets below.  The label tests of the
\* analyzers are tabulated over them once (the ...Memo definitions), so that a
\* state's evaluation looks a label up instead of searching it again.
ObjectLabels ==
    {"knife", "person", "backpack", "Laptop", "bottle", "sports ball",
     "skateboard", "car", "fork", "dog", "Person", "handbag", "truck"}

ActionLabels ==
    {"punching person (boxing)", "sword fighting", "shoplifting", "Shoplifting",
     "sneaking", "walking the dog", "shooting goal (soccer)",
     "stabbing", "choking", "kicking field goal", "wrestling", "pushing cart",
     "combat training", "punching and stabbing", "kick fight",
     "opening present", "running on treadmill", "smashing"}

LabelUniverse ==
    LET given == ObjectLabels \cup ActionLabels
    IN given \cup {Lower(l) : l \in given}

LowerMemo == [l \in LabelUniverse |-> Lower(l)]

-----------------------------------------------------------------------------
(* CrimePatternAnalyzer.__init__                                            *)

violence_keywords ==
    {"punch", "hit", "kick", "beat", "attack", "assault", "fight",
     "slap", "strangle", "choke", "tackle", "headbutt", "combat"}

weapon_keywords ==
    {"shoot", "stab", "aim", "point", "wield", "brandish",
     "threaten", "fire", "swing", "strike with"}

theft_keywords ==
    {"steal", "snatch", "grab", "rob", "shoplift", "pickpocket",
     "burglar", "loot", "pilfer", "take", "swipe"}

severity_weight_keys ==
    {"weapon_threat", "violent_assault", "armed_robbery", "physical_fight",
     "theft_in_progress", "vandalism", "suspicious_activity", "trespassing"}

severity_weights ==
    [k \in severity_weight_keys |->
        CASE k = "weapon_threat" -> Rat(1, 1)
          [] k = "violent_assault" -> Rat(95, 100)
          [] k = "armed_robbery" -> Rat(90, 100)
          [] k = "physical_fight" -> Rat(85, 100)
          [] k = "theft_in_progress" -> Rat(80, 100)
          [] k = "vandalism" -> Rat(70, 100)
          [] k = "suspicious_activity" -> Rat(60, 100)
          [] k = "trespassing" -> Rat(50, 100)]

\* the default weight for every indicator type
SeverityWeight_DefaultOnly(type) == Rat(1, 2)

\* self.severity_weights.get(type, 0.5)
SeverityWeight(type) ==
    IF type \in severity_weight_keys THEN severity_weights[type] ELSE Rat(1, 2)

-----------------------------------------------------------------------------
(* Helpers shared by the analyzers.                                         *)

IsPerson(obj) == LowerMemo[obj.label] = "person"

PersonCount(frame_info) == Len(SelectSeq(frame_info.objects, IsPerson))

\* the (clip, action) pairs visited by
\*   for clip in actions: for action in clip.get("top_actions", [])
RECURSIVE FlatActions(_)
FlatActions(clips) ==
    IF Len(clips) = 0 THEN <<>>
    ELSE [i \in 1..Len(clips[1].top_actions) |->
              [clip |-> clips[1], action |-> clips[1].top_actions[i]]]
         \o FlatActions(Tail(clips))

-----------------------------------------------------------------------------
(* analyze_weapon_threat                                                    *)

weapon_labels ==
    {"knife", "gun", "pistol", "rifle", "weapon", "firearm",
     "baseball bat", "bat", "hammer", "axe", "crowbar", "stick",
     "scissors", "sword", "machete", "blade", "razor",
     "bottle", "chain", "pipe", "wrench", "club", "baton"}

_is_weapon(label) == AnyKeyword(Lower(label), weapon_labels)

IsWeaponMemo == [l \in LabelUniverse |-> _is_weapon(l)]

IsWeaponObj(obj) == IsWeaponMemo[obj.label]

\* The distance between the two box centres is sqrt(BBoxDistance4Sq)/2: the
\* model keeps (2*distance)^2, an integer, and compares it with (2*t)^2.
_calculate_bbox_distance(bbox1, bbox2) ==
    LET dx == (bbox1[1] + bbox1[3]) - (bbox2[1] + bbox2[3])
        dy == (bbox1[2] + bbox1[4]) - (bbox2[2] + bbox2[4])
    IN dx * dx + dy * dy

\* distance < t, on the squared doubled distance
DistanceBelow(distance, t) == distance < 4 * t * t

\* the weapon_frames entry of one frame
WeaponFrame(frame_info) ==
    LET weapons == SelectSeq(frame_info.objects, IsWeaponObj)
    IN [frame_index |-> frame_info.frame_index,
        weapon_count |-> Len(weapons),
        person_count |-> PersonCount(frame_info),
        weapons |-> [i \in 1..Len(weapons) |->
                        [type |-> weapons[i].label, confidence |-> weapons[i].conf]]]

\* the distance to the first person of the frame instead of the minimum
FrameProximity_FirstPerson(frame_info) ==
    LET weapons == SelectSeq(frame_info.objects, IsWeaponObj)
        persons == SelectSeq(frame_info.objects, IsPerson)
    IN IF Len(persons) > 0 /\ Len(weapons) > 0
       THEN [i \in 1..Len(weapons) |->
                [frame_index |-> frame_info.frame_index,
                 distance |-> _calculate_bbox_distance(weapons[i].bbox, persons[1].bbox),
                 weapon_type |-> weapons[i].label]]
       ELSE <<>>

\* the person_weapon_proximity entries of one frame: one per weapon, when the
\* frame has persons, with the minimum distance to a person
FrameProximity(frame_info) ==
    LET weapons == SelectSeq(frame_info.objects, IsWeaponObj)
        persons == SelectSeq(frame_info.objects, IsPerson)
    IN IF Len(persons) > 0 /\ Len(weapons) > 0
       THEN [i \in 1..Len(weapons) |->
                [frame_index |-> frame_info.frame_index,
                 distance |-> MinInt([j \in 1..Len(persons) |->
                                  _calculate_bbox_distance(weapons[i].bbox, persons[j].bbox)]),
                 weapon_type |-> weapons[i].label]]
       ELSE <<>>

RECURSIVE PersonWeaponProximity(_)
PersonWeaponProximity(dets) ==
    IF Len(dets) = 0 THEN <<>>
    ELSE FrameProximity(dets[1]) \o PersonWeaponProximity(Tail(dets))

HasWeapon(frame_info) == Len(SelectSeq(frame_info.objects, IsWeaponObj)) > 0

\* label = action["label"].lower(); any(kw in label for kw in keywords)
LabelMatches(label, keywords) == AnyKeyword(Lower(label), keywords)

WeaponActionMemo == [l \in LabelUniverse |-> LabelMatches(l, weapon_keywords)]

IsWeaponAction(ca) == WeaponActionMemo[ca.action.label]

WeaponActions(acts) ==
    LET hits == SelectSeq(FlatActions(acts), IsWeaponAction)
    IN [i \in 1..Len(hits) |->
           [action |-> hits[i].action.label,
            confidence |-> hits[i].action.prob,
            clip_index |-> hits[i].clip.clip_index,
            clip_type |-> hits[i].clip.clip_type]]

\* mutant: the close-proximity threshold before it was raised to 300
IsCloseProximity_150(p) == DistanceBelow(p.distance, 150)

IsCloseProximity(p) == DistanceBelow(p.distance, 300)
IsModerateProximity(p) == DistanceBelow(p.distance, 500)
IsProximityAlert(p) == DistanceBelow(p.distance, 200)

\* mutant: the "high" test placed before the "critical" test
_calculate_threat_level_HighFirst(weapon_frame_count, proximity_data, weapon_actions) ==
    LET close_proximity == Len(SelectSeq(proximity_data, IsCloseProximity))
        moderate_proximity == Len(SelectSeq(proximity_data, IsModerateProximity))
    IN IF weapon_frame_count = 0 THEN "none"
       ELSE IF moderate_proximity > 0 \/ weapon_frame_count > 2 THEN "high"
       ELSE IF close_proximity > 0 \/ Len(weapon_actions) > 0 THEN "critical"
       ELSE "medium"

_calculate_threat_level(weapon_frame_count, proximity_data, weapon_actions) ==
    LET close_proximity == Len(SelectSeq(proximity_data, IsCloseProximity))
        moderate_proximity == Len(SelectSeq(proximity_data, IsModerateProximity))
    IN IF weapon_frame_count = 0 THEN "none"
       ELSE IF close_proximity > 0 \/ Len(weapon_actions) > 0 THEN "critical"
       ELSE IF moderate_proximity > 0 \/ weapon_frame_count > 2 THEN "high"
       ELSE "medium"

_generate_weapon_assessment(threat_level) ==
    CASE threat_level = "critical" -> "CRITICAL: Weapon detected in close proximity to persons."
      [] threat_level = "high" -> "HIGH: Weapon detected in multiple frames."
      [] threat_level = "medium" -> "MEDIUM: Weapon-like object detected."
      [] OTHER -> "No significant weapon threat detected."

analyze_weapon_threat(dets, acts) ==
    LET weapon_frames == Map(SelectSeq(dets, HasWeapon), WeaponFrame)
        person_weapon_proximity == PersonWeaponProximity(dets)
        weapon_actions == WeaponActions(acts)
        threat_level == _calculate_threat_level(Len(weapon_frames),
                                                person_weapon_proximity, weapon_actions)
    IN [detected |-> Len(weapon_frames) > 0,
        threat_level |-> threat_level,
        weapon_frames |-> weapon_frames,
        proximity_alerts |-> SelectSeq(person_weapon_proximity, IsProximityAlert),
        weapon_actions |-> weapon_actions,
        assessment |-> _generate_weapon_assessment(threat_level)]

-----------------------------------------------------------------------------
(* analyze_violence_intensity                                               *)

extreme_violence == {"shoot", "stab", "strangle", "choke", "murder", "kill"}
high_violence == {"punch", "kick", "beat", "hit", "slap", "headbutt", "attack", "assault"}
medium_violence == {"fight", "wrestle", "tackle", "shove", "push", "grab"}

\* mutant: the "high" keywords tested before the "extreme" ones
ViolenceTier_HighFirst(action_label) ==
    LET action_lower == Lower(action_label)
    IN IF AnyKeyword(action_lower, high_violence) THEN "high"
       ELSE IF AnyKeyword(action_lower, extreme_violence) THEN "extreme"
       ELSE IF AnyKeyword(action_lower, medium_violence) THEN "medium"
       ELSE "other"

\* the branch of the if/elif chain that the label takes
ViolenceTier(action_label) ==
    LET action_lower == Lower(action_label)
    IN IF AnyKeyword(action_lower, extreme_violence) THEN "extreme"
       ELSE IF AnyKeyword(action_lower, high_violence) THEN "high"
       ELSE IF AnyKeyword(action_lower, medium_violence) THEN "medium"
       ELSE "other"

ViolenceTierMemo == [l \in LabelUniverse |-> ViolenceTier(l)]

\* mutant: the medium multiplier left at the base factor
TierIntensity_MediumUnboosted(tier, p) ==
    CASE tier = "extreme" -> RMin(One, RMul(p, Rat(2, 1)))
      [] tier = "high" -> RMin(One, RMul(p, Rat(3, 2)))
      [] tier = "medium" -> RMin(One, RMul(p, Rat(7, 10)))
      [] OTHER -> RMul(p, Rat(4, 5))

\* the value each branch returns, base_score being the probability
TierIntensity(tier, p) ==
    CASE tier = "extreme" -> RMin(One, RMul(p, Rat(2, 1)))
      [] tier = "high" -> RMin(One, RMul(p, Rat(3, 2)))
      [] tier = "medium" -> RMin(One, RMul(p, Rat(6, 5)))
      [] OTHER -> RMul(p, Rat(4, 5))

_calculate_violence_intensity(action_label, p) ==
    TierIntensity(ViolenceTierMemo[action_label], p)

ViolentActionMemo == [l \in LabelUniverse |-> LabelMatches(l, violence_keywords)]

IsViolentAction(ca) == ViolentActionMemo[ca.action.label]

ViolentActions(acts) ==
    LET hits == SelectSeq(FlatActions(acts), IsViolentAction)
    IN [i \in 1..Len(hits) |->
           [action |-> hits[i].action.label,
            confidence |-> hits[i].action.prob,
            intensity |-> _calculate_violence_intensity(LowerMemo[hits[i].action.label],
                                                        hits[i].action.prob),
            clip_index |-> hits[i].clip.clip_index,
            clip_type |-> hits[i].clip.clip_type]]

HasTwoPersons(frame_info) == PersonCount(frame_info) >= 2

Intensity(a) == a.intensity

\* _calculate_violence_score without the early return for an empty list
_calculate_violence_score_NoEarlyReturn(violent_actions, multi_person_frames, total_frames) ==
    LET avg_intensity == IF Len(violent_actions) = 0 THEN Zero
                         ELSE RDivInt(RSum(Map(violent_actions, Intensity)),
                                      Len(violent_actions))
        action_count_factor == RMin(One, RMul(Rat(Len(violent_actions), 1), Rat(1, 5)))
        multi_person_factor == Rat(multi_person_frames, Max1(total_frames))
    IN RMin(One, RAdd(RAdd(RMul(avg_intensity, Rat(1, 2)),
                           RMul(action_count_factor, Rat(3, 10))),
                      RMul(multi_person_factor, Rat(1, 5))))

_calculate_violence_score(violent_actions, multi_person_frames, total_frames) ==
    IF Len(violent_actions) = 0 THEN Zero
    ELSE LET avg_intensity == RDivInt(RSum(Map(violent_actions, Intensity)),
                                      Len(violent_actions))
             action_count_factor == RMin(One, RMul(Rat(Len(violent_actions), 1), Rat(1, 5)))
             multi_person_factor == Rat(multi_person_frames, Max1(total_frames))
         IN RMin(One, RAdd(RAdd(RMul(avg_intensity, Rat(1, 2)),
                                RMul(action_count_factor, Rat(3, 10))),
                           RMul(multi_person_factor, Rat(1, 5))))

_get_intensity_level(score) ==
    IF RGt(score, Rat(6, 10)) THEN "extreme"
    ELSE IF RGt(score, Rat(35, 100)) THEN "high"
    ELSE IF RGt(score, Rat(15, 100)) THEN "moderate"
    ELSE "low"

\* sorted(violent_actions, key=intensity, reverse=True): stable
RECURSIVE InsertByIntensity(_, _)
InsertByIntensity(sorted, a) ==
    IF Len(sorted) = 0 THEN <<a>>
    ELSE IF RLt(sorted[1].intensity, a.intensity) THEN <<a>> \o sorted
    ELSE <<sorted[1]>> \o InsertByIntensity(Tail(sorted), a)

RECURSIVE SortByIntensity(_)
SortByIntensity(s) ==
    IF Len(s) = 0 THEN <<>>
    ELSE InsertByIntensity(SortByIntensity(SubSeq(s, 1, Len(s) - 1)), s[Len(s)])

_generate_violence_assessment(score) ==
    IF RGt(score, Rat(3, 4)) THEN "EXTREME violence detected"
    ELSE IF RGt(score, Rat(1, 2)) THEN "HIGH violence detected"
    ELSE IF RGt(score, Rat(1, 4)) THEN "MODERATE violence"
    ELSE "Low or no violence detected."

analyze_violence_intensity(acts, dets) ==
    LET violent_actions == ViolentActions(acts)
        multi_person_frames == Len(SelectSeq(dets, HasTwoPersons))
        violence_score == _calculate_violence_score(violent_actions,
                                                    multi_person_frames, Len(dets))
    IN [detected |-> Len(violent_actions) > 0,
        violence_score |-> violence_score,
        intensity_level |-> _get_intensity_level(violence_score),
        violent_actions |-> SortByIntensity(violent_actions),
        multi_person_frame_ratio |-> Rat(multi_person_frames, Max1(Len(dets))),
        assessment |-> _generate_violence_assessment(violence_score)]

-----------------------------------------------------------------------------
(* analyze_theft_patterns                                                   *)

valuable_labels ==
    {"handbag", "backpack", "suitcase", "cell phone", "laptop",
     "wallet", "purse", "briefcase", "watch", "bag"}

\* the (label, frame_idx) pairs appended to valuable_timeline, in loop order:
\* one per object whose lower-cased label is a valuable label
FrameValuables(frame_info) ==
    LET IsValuable(obj) == LowerMemo[obj.label] \in valuable_labels
        hits == SelectSeq(frame_info.objects, IsValuable)
    IN [i \in 1..Len(hits) |->
           [label |-> LowerMemo[hits[i].label], frame_idx |-> frame_info.frame_index]]

RECURSIVE ValuableSightings(_)
ValuableSightings(dets) ==
    IF Len(dets) = 0 THEN <<>>
    ELSE FrameValuables(dets[1]) \o ValuableSightings(Tail(dets))

\* the keys of valuable_timeline in insertion order
RECURSIVE TimelineLabels(_, _)
TimelineLabels(sightings, seen) ==
    IF Len(sightings) = 0 THEN <<>>
    ELSE IF sightings[1].label \in seen THEN TimelineLabels(Tail(sightings), seen)
    ELSE <<sightings[1].label>>
         \o TimelineLabels(Tail(sightings), seen \cup {sightings[1].label})

\* valuable_timeline[label]: the list of frame indices appended for the label
TimelineFrames(sightings, label) ==
    LET Is(x) == x.label = label
        FrameIdx(x) == x.frame_idx
    IN Map(SelectSeq(sightings, Is), FrameIdx)

\* if len(frames) < total_frames * 0.3 and len(frames) >= 2
IsSparse(frames, total_frames) ==
    /\ RLt(Rat(Len(frames), 1), RMul(Rat(total_frames, 1), Rat(3, 10)))
    /\ Len(frames) >= 2

\* if duration < total_frames * 0.5
IsShortLived(duration, total_frames) ==
    RLt(Rat(duration, 1), RMul(Rat(total_frames, 1), Rat(1, 2)))

\* 0.8 if duration < total_frames * 0.2 else 0.6
ItemSuspicionScore(duration, total_frames) ==
    IF RLt(Rat(duration, 1), RMul(Rat(total_frames, 1), Rat(1, 5)))
    THEN Rat(4, 5) ELSE Rat(3, 5)

IsDisappearance(frames, total_frames) ==
    /\ IsSparse(frames, total_frames)
    /\ IsShortLived(MaxInt(frames) - MinInt(frames), total_frames)

ValuableDisappearance(dets) ==
    LET sightings == ValuableSightings(dets)
        labels == TimelineLabels(sightings, {})
        total_frames == Len(dets)
        Gone(label) == IsDisappearance(TimelineFrames(sightings, label), total_frames)
        Entry(label) ==
            LET frames == TimelineFrames(sightings, label)
                first_seen == MinInt(frames)
                last_seen == MaxInt(frames)
                duration == last_seen - first_seen
            IN [item |-> label,
                first_seen |-> first_seen,
                last_seen |-> last_seen,
                duration_ratio |-> Rat(duration, total_frames),
                suspicion_score |-> ItemSuspicionScore(duration, total_frames)]
    IN Map(SelectSeq(labels, Gone), Entry)

TheftActionMemo == [l \in LabelUniverse |-> LabelMatches(l, theft_keywords)]

IsTheftAction(ca) == TheftActionMemo[ca.action.label]

TheftActions(acts) ==
    LET hits == SelectSeq(FlatActions(acts), IsTheftAction)
    IN [i \in 1..Len(hits) |->
           [action |-> hits[i].action.label,
            confidence |-> hits[i].action.prob,
            clip_index |-> hits[i].clip.clip_index]]

SuspicionScoreOf(d) == d.suspicion_score
ConfidenceOf(a) == a.confidence

\* mutant: the boosted average returned without the clamp to 1.0
_calculate_theft_probability_NoClamp(disappearances, theft_actions) ==
    IF Len(disappearances) = 0 /\ Len(theft_actions) = 0 THEN Zero
    ELSE LET disappearance_score ==
                 RDivInt(RSum(Map(disappearances, SuspicionScoreOf)),
                         Max1(Len(disappearances)))
             action_score ==
                 RDivInt(RSum(Map(theft_actions, ConfidenceOf)), Max1(Len(theft_actions)))
         IN IF Len(disappearances) > 0 /\ Len(theft_actions) > 0
            THEN RMul(RDivInt(RAdd(disappearance_score, action_score), 2), Rat(6, 5))
            ELSE IF Len(disappearances) > 0 THEN RMul(disappearance_score, Rat(4, 5))
            ELSE RMul(action_score, Rat(7, 10))

\* mutant: the early return taken when either list is empty
_calculate_theft_probability_EitherEmpty(disappearances, theft_actions) ==
    IF Len(disappearances) = 0 \/ Len(theft_actions) = 0 THEN Zero
    ELSE LET disappearance_score ==
                 RDivInt(RSum(Map(disappearances, SuspicionScoreOf)),
                         Max1(Len(disappearances)))
             action_score ==
                 RDivInt(RSum(Map(theft_actions, ConfidenceOf)), Max1(Len(theft_actions)))
         IN RMin(One, RMul(RDivInt(RAdd(disappearance_score, action_score), 2),
                           Rat(6, 5)))

_calculate_theft_probability(disappearances, theft_actions) ==
    IF Len(disappearances) = 0 /\ Len(theft_actions) = 0 THEN Zero
    ELSE LET disappearance_score ==
                 RDivInt(RSum(Map(disappearances, SuspicionScoreOf)),
                         Max1(Len(disappearances)))
             action_score ==
                 RDivInt(RSum(Map(theft_actions, ConfidenceOf)), Max1(Len(theft_actions)))
         IN IF Len(disappearances) > 0 /\ Len(theft_actions) > 0
            THEN RMin(One, RMul(RDivInt(RAdd(disappearance_score, action_score), 2),
                                Rat(6, 5)))
            ELSE IF Len(disappearances) > 0 THEN RMul(disappearance_score, Rat(4, 5))
            ELSE RMul(action_score, Rat(7, 10))

_generate_theft_assessment(p) ==
    IF RGt(p, Rat(7, 10)) THEN "HIGH probability of theft"
    ELSE IF RGt(p, Rat(4, 10)) THEN "MODERATE theft risk: Suspicious patterns detected."
    ELSE "Low theft risk."

analyze_theft_patterns(dets, acts) ==
    LET valuable_disappearance == ValuableDisappearance(dets)
        theft_actions == TheftActions(acts)
        theft_probability == _calculate_theft_probability(valuable_disappearance,
                                                          theft_actions)
    IN [detected |-> Len(valuable_disappearance) > 0 \/ Len(theft_actions) > 0,
        theft_probability |-> theft_probability,
        valuable_disappearances |-> valuable_disappearance,
        theft_actions |-> theft_actions,
        assessment |-> _generate_theft_assessment(theft_probability)]

-----------------------------------------------------------------------------
(* analyze_suspicious_behavior                                              *)

suspicious_keywords == {"lurk", "sneak", "hide", "creep", "stalk", "prowl", "loiter"}

HasPerson(frame_info) == PersonCount(frame_info) >= 1
HasThreePersons(frame_info) == PersonCount(frame_info) >= 3

SuspiciousActionMemo == [l \in LabelUniverse |-> LabelMatches(l, suspicious_keywords)]

IsSuspiciousAction(ca) == SuspiciousActionMemo[ca.action.label]

\* Pattern 1: person present in more than 80% of the frames
LoiteringPatterns(dets) ==
    LET person_ratio == Rat(Len(SelectSeq(dets, HasPerson)), Max1(Len(dets)))
    IN IF RGt(person_ratio, Rat(4, 5))
       THEN <<[type |-> "possible_loitering",
               confidence |-> RMin(Rat(7, 10), RMul(person_ratio, Rat(4, 5)))]>>
       ELSE <<>>

\* Pattern 2: one entry per action matching a suspicious keyword
SuspiciousActionPatterns(acts) ==
    LET hits == SelectSeq(FlatActions(acts), IsSuspiciousAction)
    IN [i \in 1..Len(hits) |->
           [type |-> "suspicious_action", confidence |-> hits[i].action.prob]]

\* Pattern 3: frames with three or more persons exceed half of the frames
GroupLoiteringPatterns(dets) ==
    IF RGt(Rat(Len(SelectSeq(dets, HasThreePersons)), 1),
           RMul(Rat(Len(dets), 1), Rat(1, 2)))
    THEN <<[type |-> "group_loitering", confidence |-> Rat(65, 100)]>>
    ELSE <<>>

_generate_suspicion_assessment(patterns) ==
    IF Len(patterns) >= 3 THEN "HIGHLY suspicious"
    ELSE IF Len(patterns) >= 1 THEN "Suspicious activity detected: " \o patterns[1].type
    ELSE "No suspicious behavior detected."

analyze_suspicious_behavior(dets, acts) ==
    LET suspicious_patterns ==
            LoiteringPatterns(dets) \o SuspiciousActionPatterns(acts)
                \o GroupLoiteringPatterns(dets)
        suspicion_score == RMul(Rat(Len(suspicious_patterns), 1), Rat(1, 4))
    IN [detected |-> Len(suspicious_patterns) > 0,
        suspicion_score |-> RMin(One, suspicion_score),
        patterns |-> suspicious_patterns,
        assessment |-> _generate_suspicion_assessment(suspicious_patterns)]

-----------------------------------------------------------------------------
(* generate_crime_report                                                    *)

\* if weapon_threat["detected"]
IncludeWeapon(weapon_threat) == weapon_threat.detected

\* if violence["detected"] and violence["violence_score"] > 0.5
IncludeViolence(violence) ==
    violence.detected /\ RGt(violence.violence_score, Rat(1, 2))

\* if theft["detected"] and theft["theft_probability"] > 0.4
IncludeTheft(theft) ==
    theft.detected /\ RGt(theft.theft_probability, Rat(4, 10))

\* mutant: the suspicion indicator without its score gate
IncludeSuspicious_NoGate(suspicious) == suspicious.detected

\* if suspicious["detected"] and suspicious["suspicion_score"] > 0.5
IncludeSuspicious(suspicious) ==
    suspicious.detected /\ RGt(suspicious.suspicion_score, Rat(1, 2))

CrimeIndicators(weapon_threat, violence, theft, suspicious) ==
    (IF IncludeWeapon(weapon_threat)
     THEN <<[type |-> "weapon_threat",
             severity |-> weapon_threat.threat_level,
             confidence |-> Rat(9, 10)]>>
     ELSE <<>>)
    \o (IF IncludeViolence(violence)
        THEN <<[type |-> "violent_assault",
                severity |-> violence.intensity_level,
                confidence |-> violence.violence_score]>>
        ELSE <<>>)
    \o (IF IncludeTheft(theft)
        THEN <<[type |-> "theft_or_robbery",
                severity |-> IF RGt(theft.theft_probability, Rat(7, 10))
                             THEN "high" ELSE "medium",
                confidence |-> theft.theft_probability]>>
        ELSE <<>>)
    \o (IF IncludeSuspicious(suspicious)
        THEN <<[type |-> "suspicious_activity",
                severity |-> "medium",
                confidence |-> suspicious.suspicion_score]>>
        ELSE <<>>)

\* ind.get("confidence", 0) * self.severity_weights.get(ind["type"], 0.5)
WeightedConfidence(ind) == RMul(ind.confidence, SeverityWeight(ind.type))

\* mutant: the "critical" cutoff drifted to 0.9
SeverityBucket_Critical09(max_severity) ==
    IF RGt(max_severity, Rat(9, 10)) THEN "critical"
    ELSE IF RGt(max_severity, Rat(6, 10)) THEN "high"
    ELSE IF RGt(max_severity, Rat(4, 10)) THEN "medium"
    ELSE "low"

\* the if/elif chain on max_severity
SeverityBucket(max_severity) ==
    IF RGt(max_severity, Rat(8, 10)) THEN "critical"
    ELSE IF RGt(max_severity, Rat(6, 10)) THEN "high"
    ELSE IF RGt(max_severity, Rat(4, 10)) THEN "medium"
    ELSE "low"

OverallSeverity(crime_indicators) ==
    IF Len(crime_indicators) > 0
    THEN SeverityBucket(RMaxSeq(Map(crime_indicators, WeightedConfidence)))
    ELSE "safe"

_generate_recommendation(severity) ==
    CASE severity = "critical" -> "CRITICAL ALERT: Immediate danger detected."
      [] severity = "high" -> "HIGH ALERT: Serious criminal activity detected."
      [] severity = "medium" -> "CAUTION: Suspicious activity detected."
      [] severity = "low" -> "LOW RISK: Minor concerning activity. Continue monitoring."
      [] OTHER -> "SAFE: No significant unlawful activity detected."

\* mutant: crime_detected only with more than one indicator
CrimeDetected_MoreThanOne(crime_indicators) == Len(crime_indicators) > 1

\* "crime_detected": len(crime_indicators) > 0
CrimeDetected(crime_indicators) == Len(crime_indicators) > 0

\* the report dictionary generate_crime_report returns
CrimeReport(weapon_threat, violence, theft, suspicious, crime_indicators, overall_severity) ==
    [overall_severity |-> overall_severity,
     crime_detected |-> CrimeDetected(crime_indicators),
     crime_indicators |-> crime_indicators,
     weapon_threat_analysis |-> weapon_threat,
     violence_analysis |-> violence,
     theft_analysis |-> theft,
     suspicious_behavior_analysis |-> suspicious,
     recommendation |-> _generate_recommendation(overall_severity)]

\* overall_severity is computed from the indicators once they are collected
ReportOfIndicators(weapon_threat, violence, theft, suspicious, crime_indicators) ==
    CrimeReport(weapon_threat, violence, theft, suspicious, crime_indicators,
                OverallSeverity(crime_indicators))

\* crime_indicators are collected from the four analyses
ReportOfAnalyses(weapon_threat, violence, theft, suspicious) ==
    ReportOfIndicators(weapon_threat, violence, theft, suspicious,
                       CrimeIndicators(weapon_threat, violence, theft, suspicious))

generate_crime_report(dets, acts) ==
    ReportOfAnalyses(analyze_weapon_threat(dets, acts),
                     analyze_violence_intensity(acts, dets),
                     analyze_theft_patterns(dets, acts),
                     analyze_suspicious_behavior(dets, acts))

-----------------------------------------------------------------------------
(* The inputs: what run_detection_model and run_action_recognition return.  *)

Obj(label, conf, bbox) == [label |-> label, conf |-> conf, bbox |-> bbox]

\* results.append({"frame_index": frame_idx, "objects": frame_objects}) with
\* frame_idx from enumerate(frames): frame i of the list has frame_index i
MkDetections(objectLists) ==
    [i \in 1..Len(objectLists) |-> [frame_index |-> i - 1, objects |-> objectLists[i]]]

\* clip_position and clip_type of clip clip_idx of actual_clips clips
ClipType(clip_idx, actual_clips) ==
    LET clip_position == IF actual_clips > 1
                         THEN Rat(clip_idx, Max1(actual_clips - 1)) ELSE Rat(1, 2)
    IN IF RLt(clip_position, Rat(1, 4)) THEN "beginning"
       ELSE IF RGt(clip_position, Rat(3, 4)) THEN "end"
       ELSE "middle"

MkActions(topLists) ==
    [i \in 1..Len(topLists) |->
        [clip_index |-> i - 1,
         clip_type |-> ClipType(i - 1, Len(topLists)),
         top_actions |-> topLists[i]]]

Pred(label, prob) == [label |-> label, prob |-> prob]

SeqsUpTo(S, n) == UNION {[1..k -> S] : k \in 0..n}

\* objects: a knife at centre (50, 50) and persons on its right
Knife == Obj("knife", Rat(1, 2), <<0, 0, 100, 100>>)
PersonAt(dx) == Obj("person", Rat(9, 10), <<dx, 0, dx + 100, 100>>)
Backpack == Obj("backpack", Rat(3, 5), <<0, 200, 100, 300>>)
Laptop == Obj("Laptop", Rat(3, 5), <<300, 200, 400, 300>>)

\* action predictions
Punch == Pred("punching person (boxing)", Rat(288, 475))
SwordFight == Pred("sword fighting", Rat(1, 10))
Shoplift == Pred("shoplifting", One)
ShopliftHalf == Pred("Shoplifting", Rat(1, 2))
ShopliftZero == Pred("shoplifting", Zero)
Sneak == Pred("sneaking", Rat(1, 2))
Walk == Pred("walking the dog", Rat(1, 2))
ShootGoal == Pred("shooting goal (soccer)", Rat(1, 5))

-----------------------------------------------------------------------------
(* Specification Spec: generate_crime_report on mixed inputs.               *)

ReportFrameKinds ==
    {<<>>, <<Knife>>, <<Knife, PersonAt(50)>>, <<PersonAt(600), PersonAt(800)>>,
     <<PersonAt(600), PersonAt(800), PersonAt(1000)>>}

ReportClipKinds ==
    {<<>>, <<Punch>>, <<Punch, Punch>>, <<Shoplift>>, <<ShopliftHalf>>, <<Sneak>>,
     <<Sneak, Sneak>>, <<Walk>>, <<SwordFight>>, <<Punch, Shoplift>>}

IdleIntensity ==
    /\ action_labels = <<>>
    /\ probability = Zero
    /\ intensities = <<>>

NoReport == [overall_severity |-> "unset"]

IdleDetection ==
    /\ frame_objects = <<>>
    /\ permuted_objects = <<>>
    /\ filtered = <<>>
    /\ kept = <<>>
    /\ kept_permuted = <<>>

IdleScoring ==
    /\ events = <<>>
    /\ analyzer = "none"
    /\ calls = <<>>

IdleMotion ==
    /\ frame_paths = <<>>
    /\ motion_analysis = <<>>
    /\ action_clips = <<>>
    /\ motion_scores = <<>>
    /\ chase_sequences = <<>>

IdlePipeline ==
    /\ cache = <<>>
    /\ frame_dirs = <<>>
    /\ result_files = <<>>
    /\ uploads = {}
    /\ runs = <<>>
    /\ stores = <<>>
    /\ cache_seen = <<>>

IdleStages ==
    /\ IdleDetection
    /\ IdleScoring
    /\ IdleMotion
    /\ IdlePipeline

IdleAnalyzer ==
    /\ detections = <<>>
    /\ actions = <<>>
    /\ report = NoReport
    /\ previous_threat_level = "unset"

Init ==
    /\ detections \in {MkDetections(k) : k \in SeqsUpTo(ReportFrameKinds, MaxFrames)}
    /\ actions \in {MkActions(c) : c \in SeqsUpTo(ReportClipKinds, MaxClips)}
    /\ report = NoReport
    /\ previous_threat_level = "unset"
    /\ pc = "start"
    /\ IdleIntensity
    /\ IdleStages

\* crime_report = crime_analyzer.generate_crime_report(detections, actions)
GenerateCrimeReport ==
    /\ pc = "start"
    /\ report' = generate_crime_report(detections, actions)
    /\ pc' = "done"
    /\ UNCHANGED <<detections, actions, previous_threat_level, intensityVars, stageVars>>

Next == GenerateCrimeReport

Spec == Init /\ [][Next]_vars

-----------------------------------------------------------------------------
(* Properties of generate_crime_report, checked under Spec.                 *)

Done == pc = "done"

IndicatorTypes == {report.crime_indicators[i].type : i \in 1..Len(report.crime_indicators)}

HasIndicator(type) == type \in IndicatorTypes

\* max over the report's indicators of confidence * weight, as the code weights
MaxWeighted == RMaxSeq(Map(report.crime_indicators, WeightedConfidence))

\* the weight the specification's table gives each indicator
TableWeight(type) ==
    CASE type = "weapon_threat" -> Rat(1, 1)
      [] type = "violent_assault" -> Rat(95, 100)
      [] type = "theft_or_robbery" -> Rat(80, 100)
      [] type = "suspicious_activity" -> Rat(60, 100)

TableWeighted(ind) == RMul(ind.confidence, TableWeight(ind.type))

TableBucket(m) ==
    IF RGt(m, Rat(8, 10)) THEN "critical"
    ELSE IF RGt(m, Rat(6, 10)) THEN "high"
    ELSE IF RGt(m, Rat(4, 10)) THEN "medium"
    ELSE IF RGt(m, Zero) THEN "low"
    ELSE "safe"

\* C1: overall_severity is the bucket (>0.8 critical, >0.6 high, >0.4 medium,
\* >0 low, else safe) of the maximum over the included indicators of
\* confidence x table weight, the theft indicator being weighted 0.80.
C1_SeverityFromWeightTable ==
    Done =>
        report.overall_severity =
            TableBucket(IF Len(report.crime_indicators) = 0 THEN Zero
                        ELSE RMaxSeq(Map(report.crime_indicators, TableWeighted)))

\* C2: an indicator is included exactly when its analyzer's detected flag is
\* true and its score passes the gate (violence_score > 0.5, theft_probability
\* > 0.4, suspicion_score > 0.5; no gate for the weapon indicator); no other
\* indicator appears and none appears twice.
C2_IndicatorsExactlyWhenGated ==
    Done =>
        /\ HasIndicator("weapon_threat") <=> report.weapon_threat_analysis.detected
        /\ HasIndicator("violent_assault") <=>
               /\ report.violence_analysis.detected
               /\ RGt(report.violence_analysis.violence_score, Rat(1, 2))
        /\ HasIndicator("theft_or_robbery") <=>
               /\ report.theft_analysis.detected
               /\ RGt(report.theft_analysis.theft_probability, Rat(2, 5))
        /\ HasIndicator("suspicious_activity") <=>
               /\ report.suspicious_behavior_analysis.detected
               /\ RGt(report.suspicious_behavior_analysis.suspicion_score, Rat(1, 2))
        /\ IndicatorTypes \subseteq
               {"weapon_threat", "violent_assault", "theft_or_robbery", "suspicious_activity"}
        /\ Cardinality(IndicatorTypes) = Len(report.crime_indicators)

\* C2 witness: a violence indicator is included while theft and suspicion are
\* detected below their gates and left out.
C2_Witness ==
    /\ Done
    /\ HasIndicator("violent_assault")
    /\ report.theft_analysis.detected
    /\ ~HasIndicator("theft_or_robbery")
    /\ report.suspicious_behavior_analysis.detected
    /\ ~HasIndicator("suspicious_activity")

\* C3: crime_detected is False and overall_severity is "safe" when the
\* indicator list is empty (as for empty detections and actions); with at
\* least one indicator crime_detected is True and overall_severity is one of
\* low, medium, high, critical.
C3_SafeIffNoIndicators ==
    Done =>
        /\ Len(report.crime_indicators) = 0 =>
               report.crime_detected = FALSE /\ report.overall_severity = "safe"
        /\ Len(report.crime_indicators) > 0 =>
               /\ report.crime_detected = TRUE
               /\ report.overall_severity \in {"low", "medium", "high", "critical"}
        /\ (detections = <<>> /\ actions = <<>>) => Len(report.crime_indicators) = 0

\* C3 witness: a report with exactly one indicator and severity "low".
C3_Witness ==
    /\ Done
    /\ Len(report.crime_indicators) = 1
    /\ report.crime_detected = TRUE
    /\ report.overall_severity = "low"

\* C4 as stated: a report whose maximum weighted confidence is 0.85 has
\* overall_severity "high", and one whose maximum is 0.35 has "low".
C4_Original ==
    (Done /\ Len(report.crime_indicators) > 0) =>
        /\ MaxWeighted = Rat(85, 100) => report.overall_severity = "high"
        /\ MaxWeighted = Rat(35, 100) => report.overall_severity = "low"

\* C4 amended: overall_severity is determined by the indicators' (confidence,
\* type) pairs: it is the bucket of their maximum weighted confidence, so a
\* maximum of 0.85 gives "critical" (0.85 > 0.8) and a maximum of 0.35 "low".
C4_SeverityOfMaxWeighted ==
    (Done /\ Len(report.crime_indicators) > 0) =>
        /\ MaxWeighted = Rat(85, 100) => report.overall_severity = "critical"
        /\ MaxWeighted = Rat(35, 100) => report.overall_severity = "low"
        /\ report.overall_severity =
               (IF RGt(MaxWeighted, Rat(4, 5)) THEN "critical"
                ELSE IF RGt(MaxWeighted, Rat(3, 5)) THEN "high"
                ELSE IF RGt(MaxWeighted, Rat(2, 5)) THEN "medium"
                ELSE "low")

\* C4 witness: a report whose maximum weighted confidence is exactly 0.85.
C4_Witness ==
    /\ Done
    /\ Len(report.crime_indicators) > 0
    /\ MaxWeighted = Rat(85, 100)

-----------------------------------------------------------------------------
(* Specification SpecWeapon: weapon threat on frames of knives and persons, *)
(* with a caller that adds evidence and asks for the report again.         *)

WeaponFrameKinds ==
    {<<>>, <<Knife>>, <<PersonAt(600)>>, <<Knife, PersonAt(50)>>, <<Knife, PersonAt(400)>>,
     <<Knife, PersonAt(600)>>, <<PersonAt(600), Knife, PersonAt(250)>>}

WeaponClipKinds == {<<>>, <<ShootGoal>>, <<Walk>>}

InitWeapon ==
    /\ detections \in {MkDetections(k) : k \in SeqsUpTo(WeaponFrameKinds, WeaponMaxFrames)}
    /\ actions \in {MkActions(c) : c \in SeqsUpTo(WeaponClipKinds, WeaponMaxClips)}
    /\ report = NoReport
    /\ previous_threat_level = "unset"
    /\ pc = "start"
    /\ IdleIntensity
    /\ IdleStages

ObjectLists(dets) == [i \in 1..Len(dets) |-> dets[i].objects]
TopLists(acts) == [i \in 1..Len(acts) |-> acts[i].top_actions]

\* the detections after one more close weapon-person pair (50 px apart) has
\* been detected: in a new last frame, in a frame that had no objects, or as a
\* person next to a knife that was alone in its frame
WithClosePair(dets) ==
    {MkDetections(Append(ObjectLists(dets), <<Knife, PersonAt(50)>>)) :
         x \in IF Len(dets) < WeaponMaxFrames THEN {0} ELSE {}}
    \cup {MkDetections([ObjectLists(dets) EXCEPT ![i] = <<Knife, PersonAt(50)>>]) :
              i \in {j \in 1..Len(dets) : dets[j].objects \in {<<>>, <<Knife>>}}}

\* the same detections and actions analysed again after a close pair was added
AddCloseProximityPair ==
    /\ pc = "done"
    /\ \E d \in WithClosePair(detections) :
           /\ detections' = d
           /\ report' = generate_crime_report(d, actions)
    /\ previous_threat_level' = report.weapon_threat_analysis.threat_level
    /\ UNCHANGED <<actions, pc, intensityVars, stageVars>>

\* analysed again after one more clip with a weapon-action prediction
AddWeaponAction ==
    /\ pc = "done"
    /\ Len(actions) < WeaponMaxClips
    /\ actions' = MkActions(Append(TopLists(actions), <<ShootGoal>>))
    /\ report' = generate_crime_report(detections, actions')
    /\ previous_threat_level' = report.weapon_threat_analysis.threat_level
    /\ UNCHANGED <<detections, pc, intensityVars, stageVars>>

NextWeapon ==
    \/ GenerateCrimeReport
    \/ AddCloseProximityPair
    \/ AddWeaponAction

SpecWeapon == InitWeapon /\ [][NextWeapon]_vars

-----------------------------------------------------------------------------
(* Properties of analyze_weapon_threat, checked under SpecWeapon.           *)

ThreatLevel == report.weapon_threat_analysis.threat_level

\* some frame holds a weapon and a person whose box centres are closer than t
SomePairBelow(t) ==
    \E i \in 1..Len(detections) :
        \E a, b \in 1..Len(detections[i].objects) :
            LET w == detections[i].objects[a]
                q == detections[i].objects[b]
            IN /\ IsWeaponMemo[w.label]
               /\ LowerMemo[q.label] = "person"
               /\ _calculate_bbox_distance(w.bbox, q.bbox) < 4 * t * t

WeaponFrameCount ==
    Cardinality({i \in 1..Len(detections) :
                    \E a \in 1..Len(detections[i].objects) :
                        IsWeaponMemo[detections[i].objects[a].label]})

SomeWeaponAction ==
    \E c \in 1..Len(actions) :
        \E a \in 1..Len(actions[c].top_actions) :
            WeaponActionMemo[actions[c].top_actions[a].label]

\* the single-frame scenario: a knife and a person 50 px apart
KnifeScenario == detections = MkDetections(<<(<<Knife, PersonAt(50)>>)>>)

\* C5 as stated: threat_level is critical if some pair is closer than 300 or
\* some action matches a weapon-action keyword; otherwise high if some pair
\* is closer than 500 or weapons appear in more than 2 frames; otherwise
\* medium if a frame contains a weapon; otherwise none.
C5_Original ==
    Done =>
        ThreatLevel =
            (IF SomePairBelow(300) \/ SomeWeaponAction THEN "critical"
             ELSE IF SomePairBelow(500) \/ WeaponFrameCount > 2 THEN "high"
             ELSE IF WeaponFrameCount > 0 THEN "medium"
             ELSE "none")

\* C5 amended: when no frame contains a weapon threat_level is none, whatever
\* the actions; when some frame does, it is critical if some pair is closer
\* than 300 or some action matches a weapon-action keyword, otherwise high if
\* some pair is closer than 500 or weapons appear in more than 2 frames,
\* otherwise medium.  The knife scenario gives detected and critical.
C5_ThreatLevelRule ==
    Done =>
        /\ ThreatLevel =
               (IF WeaponFrameCount = 0 THEN "none"
                ELSE IF SomePairBelow(300) \/ SomeWeaponAction THEN "critical"
                ELSE IF SomePairBelow(500) \/ WeaponFrameCount > 2 THEN "high"
                ELSE "medium")
        /\ report.weapon_threat_analysis.detected = (WeaponFrameCount > 0)
        /\ KnifeScenario =>
               report.weapon_threat_analysis.detected /\ ThreatLevel = "critical"

\* C5 witness: the knife scenario has been analysed.
C5_Witness ==
    /\ Done
    /\ KnifeScenario
    /\ ThreatLevel = "critical"

LevelRank(level) ==
    CASE level = "none" -> 0
      [] level = "medium" -> 1
      [] level = "high" -> 2
      [] level = "critical" -> 3

\* C6: after a close-proximity pair or a weapon-action prediction is added to
\* the input, threat_level is never lower than it was before.
C6_ThreatLevelMonotone ==
    (Done /\ previous_threat_level # "unset") =>
        LevelRank(ThreatLevel) >= LevelRank(previous_threat_level)

\* C6 witness: an addition raised the level from medium to critical.
C6_Witness ==
    /\ Done
    /\ previous_threat_level = "medium"
    /\ ThreatLevel = "critical"

-----------------------------------------------------------------------------
(* Specification SpecTheft: theft patterns on frames of valuables.          *)

\* non-decreasing lists of at most k frame indices below n: the frames in
\* which an object is detected, a frame repeated for each further object in it
Sightings(n, k) ==
    UNION {{f \in [1..m -> 0..(n - 1)] : \A i \in 1..(m - 1) : f[i] <= f[i + 1]} :
               m \in 0..k}

LaptopSightings(n) ==
    {f \in {<<>>, <<0, 1>>, <<0, 3>>, <<2, 2>>} : \A i \in 1..Len(f) : f[i] < n}

Copies(obj, frames, idx) ==
    LET hits == SelectSeq(frames, LAMBDA x : x = idx) IN [i \in 1..Len(hits) |-> obj]

\* n frames holding a backpack per entry of bp and a laptop per entry of lp
TheftDetections(n, bp, lp) ==
    MkDetections([i \in 1..n |-> Copies(Backpack, bp, i - 1) \o Copies(Laptop, lp, i - 1)])

TheftClipLists ==
    {<<>>, <<(<<ShopliftZero>>)>>, <<(<<ShopliftHalf>>)>>, <<(<<Shoplift>>)>>,
     <<(<<Walk>>)>>, <<(<<ShopliftHalf, Shoplift>>)>>, <<(<<Shoplift>>), (<<ShopliftZero>>)>>}

InitTheft ==
    /\ \E n \in 0..TheftMaxFrames :
           \E bp \in Sightings(n, MaxSightings) :
               \E lp \in LaptopSightings(n) :
                   detections = TheftDetections(n, bp, lp)
    /\ actions \in {MkActions(c) : c \in TheftClipLists}
    /\ report = NoReport
    /\ previous_threat_level = "unset"
    /\ pc = "start"
    /\ IdleIntensity
    /\ IdleStages

SpecTheft == InitTheft /\ [][Next]_vars

-----------------------------------------------------------------------------
(* Properties of analyze_theft_patterns, checked under SpecTheft.           *)

Theft == report.theft_analysis

TotalFrames == Len(detections)

\* the frame indices in which the (lower-cased) label is detected, as a set
FramesOf(label) ==
    {detections[i].frame_index :
        i \in {j \in 1..Len(detections) :
                  \E a \in 1..Len(detections[j].objects) :
                      LowerMemo[detections[j].objects[a].label] = label}}

SetMin(S) == CHOOSE x \in S : \A y \in S : x <= y
SetMax(S) == CHOOSE x \in S : \A y \in S : x >= y

Candidates ==
    {Theft.valuable_disappearances[i].item : i \in 1..Len(Theft.valuable_disappearances)}

\* C7: a valuable label is a disappearance candidate exactly when the set of
\* frame indices in which it appears has at least 2 elements and fewer than
\* 30% of the total frames, and last_seen - first_seen is below 50% of the
\* total frames; a label seen in a single frame is never a candidate.
C7_CandidateByDistinctFrames ==
    Done =>
        \A label \in valuable_labels :
            label \in Candidates <=>
                /\ Cardinality(FramesOf(label)) >= 2
                /\ 10 * Cardinality(FramesOf(label)) < 3 * TotalFrames
                /\ 2 * (SetMax(FramesOf(label)) - SetMin(FramesOf(label))) < TotalFrames

DisappearanceScores == Map(Theft.valuable_disappearances, SuspicionScoreOf)
ActionConfidences == Map(Theft.theft_actions, ConfidenceOf)

Mean(s) == RDivInt(RSum(s), Len(s))

\* the scenario: 10 frames, one backpack in each of frames 0 and 1, no actions
BackpackScenario ==
    /\ detections = TheftDetections(10, <<0, 1>>, <<>>)
    /\ actions = <<>>

\* C8: theft_probability is min(1, 1.2 x the average of the mean candidate
\* suspicion score and the mean theft-action confidence) with both kinds of
\* evidence, 0.8 x the mean suspicion score with disappearances only, 0.7 x
\* the mean confidence with actions only, 0 with neither; a candidate's score
\* is 0.8 if its span is below 20% of the total frames and 0.6 otherwise; the
\* backpack scenario gives 0.64; the result lies in [0, 1].
C8_TheftProbabilityFormula ==
    Done =>
        /\ Theft.theft_probability =
               (IF Len(DisappearanceScores) > 0 /\ Len(ActionConfidences) > 0
                THEN RMin(One, RMul(Rat(6, 5),
                                    RDivInt(RAdd(Mean(DisappearanceScores),
                                                 Mean(ActionConfidences)), 2)))
                ELSE IF Len(DisappearanceScores) > 0
                THEN RMul(Rat(4, 5), Mean(DisappearanceScores))
                ELSE IF Len(ActionConfidences) > 0
                THEN RMul(Rat(7, 10), Mean(ActionConfidences))
                ELSE Zero)
        /\ \A i \in 1..Len(Theft.valuable_disappearances) :
               LET d == Theft.valuable_disappearances[i]
               IN d.suspicion_score =
                      (IF 5 * (d.last_seen - d.first_seen) < TotalFrames
                       THEN Rat(4, 5) ELSE Rat(3, 5))
        /\ BackpackScenario => Theft.theft_probability = Rat(64, 100)
        /\ ~RLt(Theft.theft_probability, Zero)
        /\ ~RGt(Theft.theft_probability, One)

\* C8 witness: the backpack scenario has been analysed and gave 0.64.
C8_Witness ==
    /\ Done
    /\ BackpackScenario
    /\ Theft.theft_probability = Rat(64, 100)

\* C9 as stated: theft_probability is 0 if and only if the disappearance list
\* and the theft-action list are both empty.
C9_Original ==
    Done =>
        (Theft.theft_probability = Zero <=>
            (Len(Theft.valuable_disappearances) = 0 /\ Len(Theft.theft_actions) = 0))

\* C9 amended: theft_probability is 0 if and only if the disappearance list is
\* empty and every theft action (if any) has confidence 0; in particular it
\* is 0 when both lists are empty, and non-zero whenever a disappearance or a
\* theft action of non-zero confidence exists.
C9_ZeroIffNoPositiveEvidence ==
    Done =>
        /\ Theft.theft_probability = Zero <=>
               /\ Len(Theft.valuable_disappearances) = 0
               /\ \A i \in 1..Len(Theft.theft_actions) :
                      Theft.theft_actions[i].confidence = Zero
        /\ (Len(Theft.valuable_disappearances) = 0 /\ Len(Theft.theft_actions) = 0)
               => Theft.theft_probability = Zero

\* C9 witness: a theft action of confidence 0 is the only evidence and the
\* probability is 0.
C9_Witness ==
    /\ Done
    /\ Len(Theft.theft_actions) > 0
    /\ Len(Theft.valuable_disappearances) = 0
    /\ Theft.theft_probability = Zero

-----------------------------------------------------------------------------
(* Specification SpecIntensity: _calculate_violence_intensity on two labels *)
(* and one probability.                                                     *)

IntensityLabels ==
    {"stabbing", "choking", "punching person (boxing)", "kicking field goal",
     "wrestling", "pushing cart", "combat training", "walking the dog",
     "punching and stabbing", "kick fight"}

InitIntensity ==
    /\ action_labels \in IntensityLabels \X IntensityLabels
    /\ probability \in {Rat(k, ProbDen) : k \in 0..ProbDen}
    /\ intensities = <<>>
    /\ pc = "start"
    /\ IdleAnalyzer
    /\ IdleStages

\* intensity = self._calculate_violence_intensity(label, prob), for each label
CalculateViolenceIntensity ==
    /\ pc = "start"
    /\ intensities' = [i \in 1..2 |->
                          _calculate_violence_intensity(action_labels[i], probability)]
    /\ pc' = "done"
    /\ UNCHANGED <<analyzerVars, action_labels, probability, stageVars>>

NextIntensity == CalculateViolenceIntensity

SpecIntensity == InitIntensity /\ [][NextIntensity]_vars

-----------------------------------------------------------------------------
(* Properties of _calculate_violence_intensity, checked under SpecIntensity. *)

\* the highest tier one of whose keywords occurs in the lower-cased label:
\* 3 extreme, 2 high, 1 medium, 0 none
KeywordRank(label) ==
    IF \E kw \in {"shoot", "stab", "strangle", "choke", "murder", "kill"} :
           Contains(Lower(label), kw) THEN 3
    ELSE IF \E kw \in {"punch", "kick", "beat", "hit", "slap", "headbutt", "attack",
                       "assault"} : Contains(Lower(label), kw) THEN 2
    ELSE IF \E kw \in {"fight", "wrestle", "tackle", "shove", "push", "grab"} :
           Contains(Lower(label), kw) THEN 1
    ELSE 0

KeywordRankMemo == [l \in IntensityLabels |-> KeywordRank(l)]

RankIntensity(rank, p) ==
    CASE rank = 3 -> RMin(One, RMul(p, Rat(2, 1)))
      [] rank = 2 -> RMin(One, RMul(p, Rat(15, 10)))
      [] rank = 1 -> RMin(One, RMul(p, Rat(12, 10)))
      [] rank = 0 -> RMul(p, Rat(8, 10))

\* C10: at equal probability a label of a higher tier never has a lower
\* intensity than a label of a lower tier (extreme >= high >= medium >=
\* other); the intensity is p x 2.0 / 1.5 / 1.2 clamped to 1.0 for the three
\* tiers and p x 0.8 otherwise, a label matching several tiers taking the
\* highest.
C10_IntensityMonotoneInTier ==
    Done =>
        /\ \A i, j \in 1..2 :
               KeywordRankMemo[action_labels[i]] >= KeywordRankMemo[action_labels[j]]
                   => ~RLt(intensities[i], intensities[j])
        /\ \A i \in 1..2 :
               intensities[i] = RankIntensity(KeywordRankMemo[action_labels[i]], probability)

\* C10 witness: a label matching the extreme and the high tier is scored
\* above a high-tier label at the same probability.
C10_Witness ==
    /\ Done
    /\ action_labels = <<"punching and stabbing", "kicking field goal">>
    /\ probability = Rat(3, 10)
    /\ RGt(intensities[1], intensities[2])

-----------------------------------------------------------------------------
(* models.py: _filter_detections_by_confidence and _apply_nms, as            *)
(* run_detection_model applies them to the boxes of one frame.              *)

critical_labels ==
    {"person", "knife", "gun", "pistol", "rifle", "weapon",
     "baseball bat", "scissors", "hammer", "axe", "sword",
     "machete", "crowbar", "bat", "stick", "club",
     "bottle", "glass bottle", "beer bottle"}

valuable_items ==
    {"handbag", "backpack", "suitcase", "cell phone", "laptop",
     "wallet", "purse", "briefcase", "luggage", "bag",
     "watch", "clock", "bottle", "cup", "wine glass",
     "remote", "book", "tie", "umbrella", "sports ball",
     "keyboard", "mouse", "tv", "monitor", "camera",
     "vase", "potted plant", "teddy bear"}

vehicle_items ==
    {"car", "truck", "motorcycle", "bicycle", "bus", "train",
     "skateboard", "scooter"}

damage_related ==
    {"bottle", "baseball bat", "sports ball", "frisbee",
     "skateboard", "scissors", "fork", "spoon", "bowl"}

\* FilterThreshold with the valuable items tested before the critical labels
FilterThreshold_ValuableFirst(label, min_confidence) ==
    IF label \in valuable_items THEN Rat(15, 100)
    ELSE IF label \in critical_labels THEN Rat(10, 100)
    ELSE IF label \in vehicle_items THEN Rat(20, 100)
    ELSE IF label \in damage_related THEN Rat(20, 100)
    ELSE RMin(Rat(30, 100), min_confidence)

\* the if/elif chain on the lower-cased label
FilterThreshold(label, min_confidence) ==
    IF label \in critical_labels THEN Rat(10, 100)
    ELSE IF label \in valuable_items THEN Rat(15, 100)
    ELSE IF label \in vehicle_items THEN Rat(20, 100)
    ELSE IF label \in damage_related THEN Rat(20, 100)
    ELSE RMin(Rat(30, 100), min_confidence)

\* if conf >= threshold: filtered.append(obj)
PassesFilter(obj, min_confidence) ==
    ~RLt(obj.conf, FilterThreshold(LowerMemo[obj.label], min_confidence))

RECURSIVE _filter_detections_by_confidence(_, _)
_filter_detections_by_confidence(objs, min_confidence) ==
    IF Len(objs) = 0 THEN <<>>
    ELSE (IF PassesFilter(objs[1], min_confidence) THEN <<objs[1]>> ELSE <<>>)
         \o _filter_detections_by_confidence(Tail(objs), min_confidence)

\* areas = (x2 - x1) * (y2 - y1)
BoxArea(b) == (b[3] - b[1]) * (b[4] - b[2])

\* inter = max(0, min(x2) - max(x1)) * max(0, min(y2) - max(y1))
BoxIntersection(a, b) ==
    LET xx1 == IF a[1] > b[1] THEN a[1] ELSE b[1]
        yy1 == IF a[2] > b[2] THEN a[2] ELSE b[2]
        xx2 == IF a[3] < b[3] THEN a[3] ELSE b[3]
        yy2 == IF a[4] < b[4] THEN a[4] ELSE b[4]
        w == IF xx2 - xx1 > 0 THEN xx2 - xx1 ELSE 0
        h == IF yy2 - yy1 > 0 THEN yy2 - yy1 ELSE 0
    IN w * h

\* IouAtMost with the intersection not subtracted from the union
IouAtMost_NoUnion(a, b, iou_threshold) ==
    LET inter == BoxIntersection(a, b)
        total == BoxArea(a) + BoxArea(b)
    IN /\ total > 0
       /\ inter * iou_threshold[2] <= iou_threshold[1] * total

\* iou <= iou_threshold, with iou = inter / (areas[i] + areas[j] - inter);
\* a zero denominator gives nan, which no comparison accepts
IouAtMost(a, b, iou_threshold) ==
    LET inter == BoxIntersection(a, b)
        union == BoxArea(a) + BoxArea(b) - inter
    IN /\ union > 0
       /\ inter * iou_threshold[2] <= iou_threshold[1] * union

\* confidences.argsort()[::-1]: the indices by non-increasing confidence.
\* The default sort kind is not stable, so the order among equal confidences
\* depends on the numpy build: a stable sort reversed lists the later index
\* first (last_first), another build may list the earlier index first.
ArgsortDescending(objs, last_first) ==
    CHOOSE o \in [1..Len(objs) -> 1..Len(objs)] :
        /\ \A i, j \in 1..Len(objs) : i # j => o[i] # o[j]
        /\ \A i \in 1..(Len(objs) - 1) :
               \/ RGt(objs[o[i]].conf, objs[o[i + 1]].conf)
               \/ /\ objs[o[i]].conf = objs[o[i + 1]].conf
                  /\ IF last_first THEN o[i] > o[i + 1] ELSE o[i] < o[i + 1]

\* the while loop: keep order[0], continue with the boxes of order[1:] whose
\* iou with it is at most the threshold
RECURSIVE NmsKeep(_, _, _)
NmsKeep(objs, order, iou_threshold) ==
    IF Len(order) = 0 THEN <<>>
    ELSE LET i == order[1]
             keepsOn(j) == IouAtMost(objs[i].bbox, objs[j].bbox, iou_threshold)
         IN <<i>> \o NmsKeep(objs, SelectSeq(Tail(order), keepsOn), iou_threshold)

\* return [frame_objects[i] for i in keep]
_apply_nms(objs, iou_threshold, last_first) ==
    LET keep == NmsKeep(objs, ArgsortDescending(objs, last_first), iou_threshold)
    IN [k \in 1..Len(keep) |-> objs[keep[k]]]

\* run_detection_model, lines 207-210, for one frame's boxes
DetectedObjects(objs, last_first) ==
    _apply_nms(_filter_detections_by_confidence(objs, Rat(45, 100)), Rat(45, 100),
               last_first)

Orderings(s) ==
    {[i \in 1..Len(s) |-> s[p[i]]] :
        p \in {q \in [1..Len(s) -> 1..Len(s)] :
                  \A i, j \in 1..Len(s) : i # j => q[i] # q[j]}}

-----------------------------------------------------------------------------
(* Specifications SpecFilter and SpecNms: one frame of run_detection_model. *)

\* frame_objects = _filter_detections_by_confidence(frame_objects, 0.45)
\* frame_objects = _apply_nms(frame_objects, iou_threshold=0.45)
DetectFrame ==
    /\ pc = "start"
    /\ filtered' = _filter_detections_by_confidence(frame_objects, Rat(45, 100))
    /\ \E last_first \in BOOLEAN :
           /\ kept' = DetectedObjects(frame_objects, last_first)
           /\ kept_permuted' = DetectedObjects(permuted_objects, last_first)
    /\ pc' = "done"
    /\ UNCHANGED <<frame_objects, permuted_objects, analyzerVars, intensityVars,
                   scoringVars, motionVars, pipelineVars>>

NextDetect == DetectFrame

\* labels of every threshold category, and of several at once
FilterLabels ==
    {"person", "bottle", "backpack", "sports ball", "skateboard", "fork", "dog"}

\* confidences on both sides of every threshold
FilterConfs == {Rat(k, 100) : k \in {9, 10, 14, 15, 19, 20, 29, 30}}

FilterBox == <<0, 0, 100, 100>>

InitFilter ==
    /\ frame_objects \in
           SeqsUpTo({Obj(l, c, FilterBox) : l \in FilterLabels, c \in FilterConfs},
                    MaxFilterObjects)
    /\ permuted_objects = frame_objects
    /\ filtered = <<>>
    /\ kept = <<>>
    /\ kept_permuted = <<>>
    /\ pc = "start"
    /\ IdleAnalyzer
    /\ IdleIntensity
    /\ IdleScoring
    /\ IdleMotion
    /\ IdlePipeline

SpecFilter == InitFilter /\ [][NextDetect]_vars

\* three boxes: the first two overlap with IoU 9/11, the third overlaps the
\* first with IoU 1/3 and the second with IoU 3/7
NmsBoxes == {<<0, 0, 100, 100>>, <<10, 0, 110, 100>>, <<50, 0, 150, 100>>}

\* one confidence under the threshold of "person" and two above it
NmsConfs == {Rat(5, 100), Rat(50, 100), Rat(90, 100)}

InitNms ==
    /\ frame_objects \in
           SeqsUpTo({Obj("person", c, b) : c \in NmsConfs, b \in NmsBoxes}, MaxNmsObjects)
    /\ permuted_objects \in Orderings(frame_objects)
    /\ filtered = <<>>
    /\ kept = <<>>
    /\ kept_permuted = <<>>
    /\ pc = "start"
    /\ IdleAnalyzer
    /\ IdleIntensity
    /\ IdleScoring
    /\ IdleMotion
    /\ IdlePipeline

SpecNms == InitNms /\ [][NextDetect]_vars

-----------------------------------------------------------------------------
(* Properties of the detection filter, checked under SpecFilter and SpecNms. *)

\* the threshold of a label's category, as the categories are described
CategoryThreshold(label) ==
    CASE label \in {"person", "bottle"} -> Rat(10, 100)
      [] label \in {"backpack", "sports ball"} -> Rat(15, 100)
      [] label \in {"skateboard", "fork"} -> Rat(20, 100)
      [] OTHER -> Rat(30, 100)

MeetsCategoryThreshold(obj) == ~RLt(obj.conf, CategoryThreshold(obj.label))

\* C11: _filter_detections_by_confidence keeps an object if and only if its
\* confidence is at least the threshold of its label's category (0.10
\* critical, 0.15 valuable, 0.20 vehicle or damage-related, 0.30 otherwise, the
\* first matching category deciding), so every survivor meets its threshold.
C11_KeptIffAtLeastCategoryThreshold ==
    Done =>
        /\ filtered = SelectSeq(frame_objects, MeetsCategoryThreshold)
        /\ \A i \in 1..Len(filtered) : MeetsCategoryThreshold(filtered[i])

\* C11 witness: a bottle of confidence 0.10 (critical before valuable) was
\* kept and a dog of confidence 0.29 was dropped.
C11_Witness ==
    /\ Done
    /\ frame_objects = <<Obj("bottle", Rat(10, 100), FilterBox),
                         Obj("dog", Rat(29, 100), FilterBox)>>
    /\ filtered = <<Obj("bottle", Rat(10, 100), FilterBox)>>

\* intersection over union above 0.45
IouAbove45(a, b) ==
    LET inter == BoxIntersection(a, b)
        union == BoxArea(a) + BoxArea(b) - inter
    IN inter * 100 > 45 * union

Elements(s) == {s[i] : i \in 1..Len(s)}

NmsProperty(input, output) ==
    /\ Elements(output) \subseteq Elements(input)
    /\ Len(output) <= Len(input)
    /\ Len(input) > 0 =>
           \E k \in 1..Len(output) :
               \A i \in 1..Len(input) : ~RLt(output[k].conf, input[i].conf)
    /\ \A i, j \in 1..Len(output) :
           i # j => ~IouAbove45(output[i].bbox, output[j].bbox)

\* C12: the output of _apply_nms with threshold 0.45 is a subset of its input
\* that contains a box of the highest confidence and in which no two distinct
\* survivors, adjacent in confidence order or not, have IoU above 0.45.
C12_NmsSubsetWithoutOverlaps ==
    Done =>
        /\ NmsProperty(filtered, kept)
        /\ NmsProperty(_filter_detections_by_confidence(permuted_objects, Rat(45, 100)),
                       kept_permuted)

\* C12 witness: of three boxes in confidence order first, third, second, the
\* second was suppressed by the first although the third does not suppress it.
C12_Witness ==
    /\ Done
    /\ frame_objects = <<Obj("person", Rat(90, 100), <<0, 0, 100, 100>>),
                         Obj("person", Rat(50, 100), <<10, 0, 110, 100>>),
                         Obj("person", Rat(90, 100), <<50, 0, 150, 100>>)>>
    /\ Len(kept) = 2
    /\ Elements(kept) = {frame_objects[1], frame_objects[3]}

\* C13: for every permutation of a frame's boxes, confidence gating followed
\* by _apply_nms gives the same set of surviving objects, also when two
\* overlapping boxes have equal confidence; an empty input gives an empty
\* output.
C13_OrderIndependent ==
    Done =>
        /\ Elements(kept) = Elements(kept_permuted)
        /\ frame_objects = <<>> => kept = <<>>

-----------------------------------------------------------------------------
(* utils.py: evaluate_unlawful_events.                                      *)

WEAPON_LABELS ==
    {"knife", "gun", "pistol", "rifle", "weapon",
     "baseball bat", "bat", "scissors", "hammer", "axe",
     "sword", "machete", "crowbar"}

VALUABLE_LABELS ==
    {"handbag", "backpack", "suitcase", "cell phone", "laptop",
     "wallet", "purse", "briefcase", "luggage", "bag",
     "watch", "jewelry", "tablet", "camera"}

VEHICLE_LABELS == {"car", "truck", "motorcycle", "bicycle", "bus", "van", "suv"}

PERSON_LABEL == "person"

\* the dictionary in its insertion order, which ACTION_KEYWORDS.items() follows
ACTION_KEYWORDS ==
    << <<"possible_property_damage",
         {"tagging graffiti", "spray painting", "vandalizing", "smashing",
          "breaking", "destroying", "damaging", "scratching"}>>,
       <<"possible_robbery_or_snatching",
         {"stealing", "shoplifting", "pick pocketing", "mugging",
          "robbery", "snatching", "grabbing", "taking", "theft"}>>,
       <<"possible_assault_or_fight",
         {"fighting", "punching", "kicking", "wrestling", "slapping",
          "strangling", "beating", "hitting", "attacking", "struggling",
          "brawling", "combat"}>>,
       <<"possible_weapon_incident",
         {"shooting", "firing gun", "aiming gun", "stabbing",
          "knife fighting", "wielding", "threatening", "pointing"}>>,
       <<"possible_chase_or_escape",
         {"running", "chasing", "escaping", "fleeing", "pursuing",
          "sprinting", "racing"}>>,
       <<"possible_break_in",
         {"breaking and entering", "climbing", "opening", "forcing",
          "prying", "jimmying"}>>,
       <<"suspicious_behavior",
         {"lurking", "sneaking", "hiding", "creeping", "stalking",
          "loitering", "prowling"}>> >>

\* the keys of _count_objects_by_label(objs), in insertion order
RECURSIVE CountedLabels(_)
CountedLabels(objs) ==
    IF Len(objs) = 0 THEN <<>>
    ELSE LET before == CountedLabels(SubSeq(objs, 1, Len(objs) - 1))
             label == LowerMemo[objs[Len(objs)].label]
         IN IF \E i \in 1..Len(before) : before[i] = label
            THEN before ELSE Append(before, label)

\* counts.get(label, 0)
_count_objects_by_label(objs, label) ==
    Cardinality({i \in 1..Len(objs) : LowerMemo[objs[i].label] = label})

\* [lbl for lbl in counts if lbl in labels]
LabelsInFrame(objs, labels) ==
    LET isIn(l) == l \in labels IN SelectSeq(CountedLabels(objs), isIn)

\* min(0.8, 0.4 + person_count * 0.05)
CrowdConfidence(person_count) ==
    RMin(Rat(8, 10), RAdd(Rat(4, 10), Rat(person_count * 5, 100)))

\* the events one frame appends
FrameEvents(frame_info) ==
    LET objs == frame_info.objects
        frame_idx == frame_info.frame_index
        person_count == _count_objects_by_label(objs, PERSON_LABEL)
        weapon_labels_in_frame == LabelsInFrame(objs, WEAPON_LABELS)
        valuable_labels_in_frame == LabelsInFrame(objs, VALUABLE_LABELS)
        has_persons == person_count > 0
    IN (IF Len(weapon_labels_in_frame) > 0
        THEN <<[type |-> "weapon_like_object_detected",
                frame_index |-> frame_idx,
                confidence |-> IF has_persons THEN Rat(9, 10) ELSE Rat(7, 10),
                severity |-> IF has_persons THEN "critical" ELSE "high",
                source |-> "object_detection",
                details |-> [weapon_labels |-> weapon_labels_in_frame,
                             persons_present |-> person_count]]>>
        ELSE <<>>)
       \o (IF Len(valuable_labels_in_frame) > 0 /\ person_count >= 2
           THEN <<[type |-> "valuable_items_with_multiple_persons",
                   frame_index |-> frame_idx,
                   confidence |-> Rat(6, 10),
                   severity |-> "medium",
                   source |-> "object_detection",
                   details |-> [valuable_labels |-> valuable_labels_in_frame,
                                persons_count |-> person_count]]>>
           ELSE <<>>)
       \o (IF person_count >= 3
           THEN <<[type |-> "crowd_activity",
                   frame_index |-> frame_idx,
                   confidence |-> CrowdConfidence(person_count),
                   severity |-> IF person_count < 7 THEN "low" ELSE "medium",
                   source |-> "object_detection",
                   details |-> [persons_visible |-> person_count]]>>
           ELSE <<>>)

RECURSIVE ObjectDetectionEvents(_)
ObjectDetectionEvents(dets) ==
    IF Len(dets) = 0 THEN <<>>
    ELSE FrameEvents(dets[1]) \o ObjectDetectionEvents(Tail(dets))

\* weapon_frames / valuable_frames: the frame_index of the frames with such labels
FramesWith(dets, labels) ==
    LET has(frame_info) == Len(LabelsInFrame(frame_info.objects, labels)) > 0
        with == SelectSeq(dets, has)
    IN [i \in 1..Len(with) |-> with[i].frame_index]

TemporalEvents(dets) ==
    LET total_frames == Len(dets)
        weapon_frames == FramesWith(dets, WEAPON_LABELS)
        valuable_frames == FramesWith(dets, VALUABLE_LABELS)
    IN (IF Len(weapon_frames) >= 1
        THEN <<[type |-> IF Len(weapon_frames) >= 2
                         THEN "weapon_persistent_presence" ELSE "weapon_detected",
                confidence |-> IF Len(weapon_frames) >= 2 THEN Rat(90, 100) ELSE Rat(75, 100),
                severity |-> "critical",
                source |-> "temporal_analysis",
                details |-> [frames_with_weapon |-> Len(weapon_frames),
                             total_frames |-> total_frames,
                             persistence_ratio |->
                                 Rat(Len(weapon_frames), Max1(total_frames))]]>>
        ELSE <<>>)
       \o (IF Len(valuable_frames) > 0
           THEN LET first_valuable == MinInt(valuable_frames)
                    last_valuable == MaxInt(valuable_frames)
                IN IF (last_valuable - first_valuable) * 10 < total_frames * 3
                   THEN <<[type |-> "valuable_items_sudden_change",
                           confidence |-> Rat(65, 100),
                           severity |-> "medium",
                           source |-> "temporal_analysis",
                           details |-> [first_appearance |-> first_valuable,
                                        last_appearance |-> last_valuable,
                                        duration_ratio |->
                                            Rat(last_valuable - first_valuable,
                                                Max1(total_frames))]]>>
                   ELSE <<>>
           ELSE <<>>)

\* the event types whose keywords occur in a label, in dictionary order
ActionEventTypes(label) ==
    LET matches(entry) == AnyKeyword(label, entry[2])
        matching == SelectSeq(ACTION_KEYWORDS, matches)
    IN [i \in 1..Len(matching) |-> matching[i][1]]

ActionEventTypesMemo == [l \in LabelUniverse |-> ActionEventTypes(l)]

\* ActionSeverity with the chase/fight test made first
ActionSeverity_FightFirst(event_type, prob) ==
    IF Contains(event_type, "chase") \/ Contains(event_type, "fight")
    THEN (IF RGt(prob, Rat(5, 100)) THEN "high" ELSE "medium")
    ELSE IF Contains(event_type, "weapon") \/ Contains(event_type, "assault")
    THEN (IF RGt(prob, Rat(1, 10)) THEN "critical" ELSE "high")
    ELSE IF Contains(event_type, "robbery") \/ Contains(event_type, "break_in")
    THEN (IF RGt(prob, Rat(5, 100)) THEN "high" ELSE "medium")
    ELSE (IF RGt(prob, Rat(5, 100)) THEN "medium" ELSE "low")

\* the severity chain on the event type and the probability
ActionSeverity(event_type, prob) ==
    IF Contains(event_type, "weapon") \/ Contains(event_type, "assault")
    THEN (IF RGt(prob, Rat(1, 10)) THEN "critical" ELSE "high")
    ELSE IF Contains(event_type, "robbery") \/ Contains(event_type, "break_in")
    THEN (IF RGt(prob, Rat(5, 100)) THEN "high" ELSE "medium")
    ELSE IF Contains(event_type, "chase") \/ Contains(event_type, "fight")
    THEN (IF RGt(prob, Rat(5, 100)) THEN "high" ELSE "medium")
    ELSE (IF RGt(prob, Rat(5, 100)) THEN "medium" ELSE "low")

\* the events one action prediction of a clip appends
PredictionEvents(clip, act) ==
    LET label == LowerMemo[act.label]
        min_prob == IF act.is_crime_relevant THEN Rat(1, 1000) ELSE Rat(8, 100)
        types == ActionEventTypesMemo[label]
    IN IF RLt(act.prob, min_prob) THEN <<>>
       ELSE [i \in 1..Len(types) |->
                [type |-> types[i],
                 source |-> "action_recognition",
                 confidence |-> act.prob,
                 severity |-> ActionSeverity(types[i], act.prob),
                 details |-> [label |-> act.label,
                              prob |-> act.prob,
                              clip_index |-> clip.clip_index,
                              clip_type |-> clip.clip_type,
                              is_crime_relevant |-> act.is_crime_relevant]]]

RECURSIVE ClipEvents(_, _)
ClipEvents(clip, top_actions) ==
    IF Len(top_actions) = 0 THEN <<>>
    ELSE PredictionEvents(clip, top_actions[1]) \o ClipEvents(clip, Tail(top_actions))

RECURSIVE ActionRecognitionEvents(_)
ActionRecognitionEvents(acts) ==
    IF Len(acts) = 0 THEN <<>>
    ELSE ClipEvents(acts[1], acts[1].top_actions) \o ActionRecognitionEvents(Tail(acts))

\* "weapon" in e.get("type", "")
IsWeaponEvent(e) == Contains(e.type, "weapon")

\* "assault" in e.get("type", "") or "fight" in e.get("type", "")
IsFightEvent(e) == Contains(e.type, "assault") \/ Contains(e.type, "fight")

\* CrossModalEvents with either kind of event being enough
CrossModalEvents_Either(evts) ==
    LET weapon_events == SelectSeq(evts, IsWeaponEvent)
        fight_events == SelectSeq(evts, IsFightEvent)
    IN IF Len(weapon_events) > 0 \/ Len(fight_events) > 0
       THEN <<[type |-> "armed_conflict_detected",
               confidence |-> Rat(9, 10),
               severity |-> "critical",
               source |-> "cross_modal_correlation",
               details |-> [weapon_detections |-> Len(weapon_events),
                            fight_actions |-> Len(fight_events)]]>>
       ELSE <<>>

\* if weapon_events and fight_events: events.append(...)
CrossModalEvents(evts) ==
    LET weapon_events == SelectSeq(evts, IsWeaponEvent)
        fight_events == SelectSeq(evts, IsFightEvent)
    IN IF Len(weapon_events) > 0 /\ Len(fight_events) > 0
       THEN <<[type |-> "armed_conflict_detected",
               confidence |-> Rat(9, 10),
               severity |-> "critical",
               source |-> "cross_modal_correlation",
               details |-> [weapon_detections |-> Len(weapon_events),
                            fight_actions |-> Len(fight_events)]]>>
       ELSE <<>>

\* evaluate_unlawful_events with the temporal events built before the frame events
evaluate_unlawful_events_TemporalFirst(dets, acts) ==
    LET built == TemporalEvents(dets) \o ObjectDetectionEvents(dets)
                     \o ActionRecognitionEvents(acts)
    IN built \o CrossModalEvents(built)

evaluate_unlawful_events(dets, acts) ==
    LET built == ObjectDetectionEvents(dets) \o TemporalEvents(dets)
                     \o ActionRecognitionEvents(acts)
    IN built \o CrossModalEvents(built)

\* run_action_recognition: the keywords that mark a prediction crime-relevant
crime_keywords ==
    {"fight", "punch", "kick", "shoot", "stab", "hit", "slap", "beat",
     "attack", "assault", "strangle", "choke", "headbutt", "tackle",
     "wrestling", "boxing", "martial", "combat", "brawl",
     "steal", "rob", "snatch", "grab", "take", "theft", "shoplift",
     "pickpocket", "burglar", "loot", "pilfer",
     "vandal", "spray", "break", "smash", "destroy", "damage", "shatter",
     "demolish", "wreck", "ruin",
     "gun", "knife", "weapon", "fire", "aim", "point", "wield",
     "sword", "blade",
     "threat", "menac", "intimidat", "chase", "run", "escape", "flee",
     "pursue", "stalk", "lurk", "sneak", "hide", "creep",
     "crime", "illegal", "unlawful", "violent", "aggressive", "hostile"}

IsCrimeRelevantMemo == [l \in LabelUniverse |-> AnyKeyword(LowerMemo[l], crime_keywords)]

\* top_actions.append({"label", "prob", "is_crime_relevant"})
TopAction(label, prob) ==
    [label |-> label, prob |-> prob, is_crime_relevant |-> IsCrimeRelevantMemo[label]]

\* a prediction is listed if prob > 0.0005 (crime-relevant) or prob > 0.003
IsListed(act) ==
    IF act.is_crime_relevant THEN RGt(act.prob, Rat(5, 10000))
    ELSE RGt(act.prob, Rat(3, 1000))

-----------------------------------------------------------------------------
(* The scoring calls of process_video (processing.py, steps 5 and 6).       *)

vandalism_keywords ==
    {"smash", "break", "destroy", "damage", "vandal", "graffiti",
     "spray paint", "shatter", "demolish"}

\* the attributes __init__ gives a CrimePatternAnalyzer
AnalyzerState ==
    [severity_weights |-> severity_weights,
     violence_keywords |-> violence_keywords,
     weapon_keywords |-> weapon_keywords,
     theft_keywords |-> theft_keywords,
     vandalism_keywords |-> vandalism_keywords]

\* GenerateCrimeReportCall with the actions list emptied while it is read
GenerateCrimeReportCall_ConsumesActions(self, dets, acts) ==
    [self |-> self, detections |-> dets, actions |-> <<>>,
     result |-> generate_crime_report(dets, acts)]

\* a call of self.generate_crime_report(dets, acts): the instance and the two
\* argument lists as the call leaves them, and the value it returns; no
\* statement of the method or of the analyses it calls assigns to an attribute
\* or to an element of its arguments
GenerateCrimeReportCall(self, dets, acts) ==
    [self |-> self, detections |-> dets, actions |-> acts,
     result |-> generate_crime_report(dets, acts)]

\* a call of evaluate_unlawful_events(dets, acts), in the same form
EvaluateUnlawfulEventsCall(dets, acts) ==
    [detections |-> dets, actions |-> acts,
     result |-> evaluate_unlawful_events(dets, acts)]

\* events = evaluate_unlawful_events(detections, actions)
\* crime_report = crime_analyzer.generate_crime_report(detections, actions)
ScoreVideo ==
    /\ pc = "start"
    /\ \E e \in {EvaluateUnlawfulEventsCall(detections, actions)} :
         \E r \in {GenerateCrimeReportCall(analyzer, e.detections, e.actions)} :
             /\ events' = e.result
             /\ report' = r.result
             /\ detections' = r.detections
             /\ actions' = r.actions
             /\ analyzer' = r.self
             /\ calls' = Append(calls, [detections |-> detections,
                                        actions |-> actions,
                                        events |-> e.result,
                                        report |-> r.result])
    /\ pc' = "done"
    /\ UNCHANGED <<previous_threat_level, intensityVars, detectionVars, motionVars,
                   pipelineVars>>

\* top_actions of one clip: listed predictions of distinct labels, by
\* non-increasing probability, the probabilities summing to at most 1
ValidTopActions(top) ==
    /\ \A i \in 1..Len(top) : IsListed(top[i])
    /\ \A i, j \in 1..Len(top) : i # j => top[i].label # top[j].label
    /\ \A i \in 1..(Len(top) - 1) : ~RLt(top[i].prob, top[i + 1].prob)
    /\ ~RGt(RSum([i \in 1..Len(top) |-> top[i].prob]), One)

-----------------------------------------------------------------------------
(* Specification SpecCalls: a sequence of scoring calls.                    *)

CallDetections ==
    {MkDetections(k) : k \in {<<>>, <<(<<Knife, PersonAt(50)>>)>>, <<(<<Backpack>>)>>}}

CallActions ==
    {MkActions(c) :
        c \in {<<>>, <<(<<TopAction("punching person (boxing)", Rat(1, 2))>>)>>,
               <<(<<TopAction("shoplifting", Rat(1, 2))>>)>>}}

InitCalls ==
    /\ detections \in CallDetections
    /\ actions \in CallActions
    /\ report = NoReport
    /\ previous_threat_level = "unset"
    /\ events = <<>>
    /\ analyzer = AnalyzerState
    /\ calls = <<>>
    /\ pc = "start"
    /\ IdleIntensity
    /\ IdleDetection
    /\ IdleMotion
    /\ IdlePipeline

\* the next video: new argument lists, scored by the same analyzer instance
\* or by a new one
NextVideo ==
    /\ pc = "done"
    /\ Len(calls) < MaxCalls
    /\ detections' \in CallDetections
    /\ actions' \in CallActions
    /\ analyzer' \in {analyzer, AnalyzerState}
    /\ report' = NoReport
    /\ events' = <<>>
    /\ pc' = "start"
    /\ UNCHANGED <<calls, previous_threat_level, intensityVars, detectionVars,
                   motionVars, pipelineVars>>

NextCalls == ScoreVideo \/ NextVideo

SpecCalls == InitCalls /\ [][NextCalls]_vars

-----------------------------------------------------------------------------
(* Specification SpecEvents: one scoring call on mixed inputs.              *)

EventFrameKinds ==
    {<<>>, <<Knife>>, <<Knife, PersonAt(50)>>, <<Backpack>>,
     <<Backpack, PersonAt(600), PersonAt(800)>>,
     <<PersonAt(600), PersonAt(800), PersonAt(1000)>>}

EventPredictions ==
    {TopAction("punching person (boxing)", Rat(1, 2)),
     TopAction("punching person (boxing)", Rat(3, 4000)),
     TopAction("shooting goal (soccer)", Rat(1, 5)),
     TopAction("shoplifting", Rat(1, 20)),
     TopAction("opening present", Rat(3, 50))}

EventTopLists == {top \in SeqsUpTo(EventPredictions, EventMaxActions) : ValidTopActions(top)}

\* no clip, one clip, or two clips of one prediction each
EventClipLists ==
    {<<>>} \cup {<<top>> : top \in EventTopLists}
           \cup {<<(<<a>>), (<<b>>)>> : a \in EventPredictions, b \in EventPredictions}

InitEvents ==
    /\ detections \in {MkDetections(k) : k \in SeqsUpTo(EventFrameKinds, EventMaxFrames)}
    /\ actions \in {MkActions(c) : c \in EventClipLists}
    /\ report = NoReport
    /\ previous_threat_level = "unset"
    /\ events = <<>>
    /\ analyzer = AnalyzerState
    /\ calls = <<>>
    /\ pc = "start"
    /\ IdleIntensity
    /\ IdleDetection
    /\ IdleMotion
    /\ IdlePipeline

NextEvents == ScoreVideo

SpecEvents == InitEvents /\ [][NextEvents]_vars

-----------------------------------------------------------------------------
(* Properties of the scoring calls, checked under SpecCalls and SpecEvents. *)

SameArguments(a, b) == a.detections = b.detections /\ a.actions = b.actions

IndicatorRank(type) ==
    CASE type = "weapon_threat" -> 1
      [] type = "violent_assault" -> 2
      [] type = "theft_or_robbery" -> 3
      [] type = "suspicious_activity" -> 4

SourceRank(source) ==
    CASE source = "object_detection" -> 1
      [] source = "temporal_analysis" -> 2
      [] source = "action_recognition" -> 3
      [] source = "cross_modal_correlation" -> 4

\* position of the prediction an action event was made from, in its clip
PredictionIndex(e) ==
    LET top == actions[e.details.clip_index + 1].top_actions
    IN CHOOSE k \in 1..Len(top) : top[k].label = e.details.label

\* C15: crime_indicators is a subsequence of (weapon, violence, theft,
\* suspicion); in events the object_detection events, in frame order, precede
\* the temporal_analysis events, which precede the action_recognition events,
\* in clip then prediction order, which precede the cross_modal_correlation
\* event.
C15_InsertionOrder ==
    Done =>
        /\ \A i \in 1..(Len(report.crime_indicators) - 1) :
               IndicatorRank(report.crime_indicators[i].type)
                   < IndicatorRank(report.crime_indicators[i + 1].type)
        /\ \A i \in 1..(Len(events) - 1) :
               LET a == events[i]
                   b == events[i + 1]
               IN /\ SourceRank(a.source) <= SourceRank(b.source)
                  /\ (a.source = "object_detection" /\ b.source = "object_detection")
                         => a.frame_index <= b.frame_index
                  /\ (a.source = "action_recognition" /\ b.source = "action_recognition")
                         => \/ a.details.clip_index < b.details.clip_index
                            \/ /\ a.details.clip_index = b.details.clip_index
                               /\ PredictionIndex(a) <= PredictionIndex(b)
        /\ Cardinality({i \in 1..Len(events) :
                           events[i].source = "cross_modal_correlation"}) <= 1

EventSources == {events[i].source : i \in 1..Len(events)}

\* C15 witness: events of all four sources, from two frames and two
\* predictions of a clip, and a report with two indicators.
C15_Witness ==
    /\ Done
    /\ EventSources = {"object_detection", "temporal_analysis",
                       "action_recognition", "cross_modal_correlation"}
    /\ Cardinality({i \in 1..Len(events) : events[i].source = "object_detection"}) >= 2
    /\ Cardinality({i \in 1..Len(events) : events[i].source = "action_recognition"}) >= 2
    /\ Len(actions) = 1
    /\ Len(report.crime_indicators) >= 2

WeaponTaggedTypes ==
    {"weapon_like_object_detected", "weapon_persistent_presence", "weapon_detected",
     "possible_weapon_incident"}

FightTaggedTypes == {"possible_assault_or_fight"}

ArmedConflictAt == {i \in 1..Len(events) : events[i].type = "armed_conflict_detected"}

BuiltTypes ==
    {events[i].type : i \in (1..Len(events)) \ ArmedConflictAt}

\* C20: evaluate_unlawful_events appends one armed_conflict_detected event
\* (severity critical, source cross_modal_correlation), as the last element,
\* if and only if the list built so far holds a weapon-tagged event and an
\* assault/fight-tagged event; otherwise there is none, and never two.
C20_ArmedConflictIffWeaponAndFight ==
    Done =>
        IF BuiltTypes \cap WeaponTaggedTypes # {} /\ BuiltTypes \cap FightTaggedTypes # {}
        THEN /\ ArmedConflictAt = {Len(events)}
             /\ events[Len(events)].severity = "critical"
             /\ events[Len(events)].source = "cross_modal_correlation"
        ELSE ArmedConflictAt = {}

\* C20 witness: a frame with a knife and a punching prediction gave the
\* armed-conflict event as the last of the list.
C20_Witness ==
    /\ Done
    /\ detections = MkDetections(<<(<<Knife>>)>>)
    /\ Len(actions) = 1
    /\ "possible_assault_or_fight" \in BuiltTypes
    /\ ArmedConflictAt = {Len(events)}

-----------------------------------------------------------------------------
(* motion_analyzer.py: MotionAnalyzer, and the frame-count guards of         *)
(* run_action_recognition (models.py).                                      *)

\* for idx, frame_path in enumerate(frames[:50])
MotionFrameLimit == 50
\* self.sudden_movement_threshold = 50.0
sudden_movement_threshold == 50
\* if score > 35
ChaseScoreThreshold == 35
\* if in_chase and chase_duration >= 3
ChaseMinDuration == 3
\* max_frames: int = 50
ActionMaxFrames == 50
\* num_clips: int = 5
ActionNumClips == 5
\* if num_total_frames < 8 / if len(images) < 8
ActionMinFrames == 8

\* a frame file: whether cv2.imread can read it, and the motion score
\* _calculate_motion_score gives for it and the readable frame before it
Frame(readable, motion) == [readable |-> readable, motion |-> motion]

RSub(a, b) == RAdd(a, <<-b[1], b[2]>>)

RECURSIVE SumInt(_)
SumInt(s) == IF Len(s) = 0 THEN 0 ELSE s[1] + SumInt(Tail(s))

\* float(np.mean(scores))
MeanOf(scores) == Rat(SumInt(scores), Len(scores))

\* the record a chase of chase_duration scores from chase_start is reported as
ChaseRecord(scores, chase_start, chase_duration) ==
    [start_frame |-> chase_start,
     duration_frames |-> chase_duration,
     avg_intensity |-> MeanOf(SubSeq(scores, chase_start + 1, chase_start + chase_duration))]

\* one iteration of the for loop of _detect_chase_sequences
ChaseStep(scores, idx, st) ==
    IF scores[idx + 1] > ChaseScoreThreshold
    THEN IF ~st.in_chase
         THEN [st EXCEPT !.in_chase = TRUE, !.chase_start = idx, !.chase_duration = 1]
         ELSE [st EXCEPT !.chase_duration = st.chase_duration + 1]
    ELSE [st EXCEPT
             !.chase_sequences =
                 IF st.in_chase /\ st.chase_duration >= ChaseMinDuration
                 THEN Append(st.chase_sequences,
                             ChaseRecord(scores, st.chase_start, st.chase_duration))
                 ELSE st.chase_sequences,
             !.in_chase = FALSE,
             !.chase_duration = 0]

RECURSIVE ChaseLoop(_, _, _)
ChaseLoop(scores, idx, st) ==
    IF idx >= Len(scores) THEN st
    ELSE ChaseLoop(scores, idx + 1, ChaseStep(scores, idx, st))

\* _detect_chase_sequences without the check of the final sequence
_detect_chase_sequences_NoFinalCheck(scores) ==
    ChaseLoop(scores, 0, [in_chase |-> FALSE, chase_start |-> 0, chase_duration |-> 0,
                          chase_sequences |-> <<>>]).chase_sequences

_detect_chase_sequences(scores) ==
    LET st == ChaseLoop(scores, 0, [in_chase |-> FALSE, chase_start |-> 0,
                                    chase_duration |-> 0, chase_sequences |-> <<>>])
    IN IF st.in_chase /\ st.chase_duration >= ChaseMinDuration
       THEN Append(st.chase_sequences,
                   ChaseRecord(scores, st.chase_start, st.chase_duration))
       ELSE st.chase_sequences

_classify_motion_pattern(avg_motion, variance, sudden_movements) ==
    IF Len(sudden_movements) > 3
    THEN (IF RGt(avg_motion, <<25, 1>>) THEN "chaotic_high_motion" ELSE "erratic_movement")
    ELSE IF RGt(avg_motion, <<30, 1>>) THEN "high_activity"
    ELSE IF RGt(avg_motion, <<15, 1>>) THEN "moderate_activity"
    ELSE IF RGt(variance, <<50, 1>>) THEN "intermittent_activity"
    ELSE "low_activity"

\* the positions, among the first 50, of the frames cv2.imread can read
ReadablePositions_NoLimit(fr) ==
    LET n == Len(fr)
        isReadable(i) == fr[i].readable
    IN SelectSeq([i \in 1..n |-> i], isReadable)

ReadablePositions(fr) ==
    LET n == IF Len(fr) < MotionFrameLimit THEN Len(fr) ELSE MotionFrameLimit
        isReadable(i) == fr[i].readable
    IN SelectSeq([i \in 1..n |-> i], isReadable)

analyze_motion_patterns(fr) ==
    IF Len(fr) < 2 THEN [analyzed |-> FALSE, reason |-> "Insufficient frames"]
    ELSE LET read == ReadablePositions(fr)
             \* one score for every readable frame after the first
             scored == Tail(read)
             scores == IF Len(read) = 0 THEN <<>>
                       ELSE [k \in 1..Len(scored) |-> fr[scored[k]].motion]
             isSudden(i) == fr[i].motion > sudden_movement_threshold
             sudden == SelectSeq(IF Len(read) = 0 THEN <<>> ELSE scored, isSudden)
             sudden_movements == [k \in 1..Len(sudden) |->
                                     [frame_index |-> sudden[k] - 1,
                                      motion_intensity |-> fr[sudden[k]].motion]]
         IN IF Len(scores) = 0 THEN [analyzed |-> FALSE, reason |-> "No motion data"]
            ELSE LET avg_motion == MeanOf(scores)
                     motion_variance ==
                         RSub(MeanOf([k \in 1..Len(scores) |-> scores[k] * scores[k]]),
                              RMul(avg_motion, avg_motion))
                 IN [analyzed |-> TRUE,
                     average_motion |-> avg_motion,
                     max_motion |-> MaxInt(scores),
                     motion_variance |-> motion_variance,
                     motion_pattern |->
                         _classify_motion_pattern(avg_motion, motion_variance,
                                                  sudden_movements),
                     sudden_movements |-> sudden_movements,
                     chase_sequences |-> _detect_chase_sequences(scores),
                     frames_analyzed |-> Len(scores)]

\* the clips run_action_recognition returns, without the predictions of the
\* network: a clip is skipped if fewer than 8 of its frames can be read
run_action_recognition(fr) ==
    IF Len(fr) = 0 THEN <<>>
    ELSE IF Len(fr) < ActionMinFrames THEN <<>>
    ELSE LET num_total_frames == Len(fr)
             clip_length == IF ActionMaxFrames < num_total_frames
                            THEN ActionMaxFrames ELSE num_total_frames
             stride == Max1(clip_length \div 2)
             actual_clips ==
                 LET fit == Max1((num_total_frames - clip_length) \div stride + 1)
                 IN IF ActionNumClips < fit THEN ActionNumClips ELSE fit
             end_idx(clip_idx) ==
                 IF clip_idx * stride + clip_length < num_total_frames
                 THEN clip_idx * stride + clip_length ELSE num_total_frames
             start_idx(clip_idx) ==
                 IF end_idx(clip_idx) = num_total_frames
                    /\ end_idx(clip_idx) - clip_idx * stride < clip_length
                 THEN (IF num_total_frames - clip_length > 0
                       THEN num_total_frames - clip_length ELSE 0)
                 ELSE clip_idx * stride
             images(clip_idx) ==
                 Cardinality({i \in (start_idx(clip_idx) + 1)..end_idx(clip_idx) :
                                 fr[i].readable})
             analysed(clip_idx) ==
                 /\ start_idx(clip_idx) < num_total_frames
                 /\ images(clip_idx) >= ActionMinFrames
             clip_indices == SelectSeq([k \in 1..actual_clips |-> k - 1], analysed)
         IN [k \in 1..Len(clip_indices) |->
                [clip_index |-> clip_indices[k],
                 clip_type |-> ClipType(clip_indices[k], actual_clips),
                 frame_range |-> [start |-> start_idx(clip_indices[k]),
                                  end |-> end_idx(clip_indices[k]),
                                  total_frames |-> num_total_frames],
                 num_frames_analyzed |-> images(clip_indices[k])]]

-----------------------------------------------------------------------------
(* Specification SpecMotion: steps 4 and 4.5 of process_video on the frames. *)

\* actions = run_action_recognition(frames)
\* motion_analysis = integrate_motion_analysis(frames)
AnalyzeFrames ==
    /\ pc = "start"
    /\ action_clips' = run_action_recognition(frame_paths)
    /\ motion_analysis' = analyze_motion_patterns(frame_paths)
    /\ pc' = "done"
    /\ UNCHANGED <<frame_paths, motion_scores, chase_sequences, analyzerVars,
                   intensityVars, detectionVars, scoringVars, pipelineVars>>

NextMotion == AnalyzeFrames

\* an unreadable file, a frame like the one before it, a frame unlike it
MotionFrames == {Frame(FALSE, 0), Frame(TRUE, 20), Frame(TRUE, 60)}

\* videos longer than the 50 frames that are examined: readable frames up to
\* three short of the limit, then up to MaxTrailingFrames frames of any kind
LeadingFrames == [i \in 1..(MotionFrameLimit - 3) |-> Frame(TRUE, 20)]

LongFrameLists == {LeadingFrames \o t : t \in SeqsUpTo(MotionFrames, MaxTrailingFrames)}

InitMotion ==
    /\ frame_paths \in SeqsUpTo(MotionFrames, MaxMotionFrames) \cup LongFrameLists
    /\ motion_analysis = <<>>
    /\ action_clips = <<>>
    /\ motion_scores = <<>>
    /\ chase_sequences = <<>>
    /\ pc = "start"
    /\ IdleAnalyzer
    /\ IdleIntensity
    /\ IdleDetection
    /\ IdleScoring
    /\ IdlePipeline

SpecMotion == InitMotion /\ [][NextMotion]_vars

-----------------------------------------------------------------------------
(* Specification SpecChase: _detect_chase_sequences on score sequences.     *)

\* chase_sequences = self._detect_chase_sequences(motion_scores)
DetectChaseSequences ==
    /\ pc = "start"
    /\ chase_sequences' = _detect_chase_sequences(motion_scores)
    /\ pc' = "done"
    /\ UNCHANGED <<frame_paths, motion_analysis, action_clips, motion_scores,
                   analyzerVars, intensityVars, detectionVars, scoringVars,
                   pipelineVars>>

NextChase == DetectChaseSequences

\* scores below, at and above the threshold 35
ChaseScores == {30, 35, 36, 60}

InitChase ==
    /\ motion_scores \in SeqsUpTo(ChaseScores, MaxScores)
    /\ chase_sequences = <<>>
    /\ frame_paths = <<>>
    /\ motion_analysis = <<>>
    /\ action_clips = <<>>
    /\ pc = "start"
    /\ IdleAnalyzer
    /\ IdleIntensity
    /\ IdleDetection
    /\ IdleScoring
    /\ IdlePipeline

SpecChase == InitChase /\ [][NextChase]_vars

-----------------------------------------------------------------------------
(* Properties of the motion stage, checked under SpecMotion and SpecChase.  *)

ReadableCount == Cardinality({i \in 1..Len(frame_paths) : frame_paths[i].readable})

\* C16: with fewer than 8 frames motion analysis returns a not-analyzed
\* result (analyzed = False and a reason) and action recognition returns its
\* empty result; with 8 or more readable frames motion analysis returns
\* analyzed = True.
C16_FewerThanEightFramesNotAnalyzed ==
    Done =>
        /\ Len(frame_paths) < 8 =>
               /\ motion_analysis.analyzed = FALSE
               /\ "reason" \in DOMAIN motion_analysis
               /\ action_clips = <<>>
        /\ ReadableCount >= 8 => motion_analysis.analyzed = TRUE

\* the maximal runs of scores above 35, as pairs <<first, last>> of positions
IsMaximalRun(a, b) ==
    /\ a <= b
    /\ \A i \in a..b : motion_scores[i] > 35
    /\ a = 1 \/ motion_scores[a - 1] <= 35
    /\ b = Len(motion_scores) \/ motion_scores[b + 1] <= 35

LongRuns ==
    {ab \in (1..Len(motion_scores)) \X (1..Len(motion_scores)) :
        IsMaximalRun(ab[1], ab[2]) /\ ab[2] - ab[1] + 1 >= 3}

RunMean(ab) ==
    Rat(SumInt(SubSeq(motion_scores, ab[1], ab[2])), ab[2] - ab[1] + 1)

\* C19: _detect_chase_sequences returns exactly the maximal runs of
\* consecutive scores above 35 of length at least 3, one record per run in
\* increasing start order, with the run's first index, its length and the
\* mean of its scores; a run reaching the end is reported, and runs of length
\* 1 or 2 and scores equal to 35 give no record.
C19_ChaseSequencesAreLongRuns ==
    Done =>
        /\ Len(chase_sequences) = Cardinality(LongRuns)
        /\ \A ab \in LongRuns :
               \E k \in 1..Len(chase_sequences) :
                   /\ chase_sequences[k].start_frame = ab[1] - 1
                   /\ chase_sequences[k].duration_frames = ab[2] - ab[1] + 1
                   /\ chase_sequences[k].avg_intensity = RunMean(ab)
        /\ \A k \in 1..(Len(chase_sequences) - 1) :
               chase_sequences[k].start_frame + chase_sequences[k].duration_frames
                   < chase_sequences[k + 1].start_frame

\* C19 witness: two runs of three scores, the second reaching the end; the
\* 35 between them belongs to neither.
C19_Witness ==
    /\ Done
    /\ motion_scores = <<36, 60, 36, 35, 60, 60, 36>>
    /\ Len(chase_sequences) = 2
    /\ chase_sequences[2].start_frame = 4
    /\ chase_sequences[2].avg_intensity = Rat(52, 1)

-----------------------------------------------------------------------------
(* processing.py: process_video, run by several workers at once.            *)

\* the content hashes of the uploaded videos
Videos == {"v1", "v2"}

Runs == 1..MaxRuns

\* cache_get returns None: nothing is stored under the key
None == [none |-> TRUE]

\* call_gemini returns the model's answer, or the fallback response when the
\* key is missing or the request fails
GeminiOutputs == {"generated", "fallback"}

\* cache_get with the key of another video
cache_get_OtherKey(job_id) == cache[CHOOSE k \in Videos : k # job_id]

\* data = r.get(f"result:{job_id}"); json.loads(data) if data else None
cache_get(job_id) == cache[job_id]

\* what a stage that reads the frame files of /app/frames/<hash> gets: every
\* frame, or nothing when the directory has been removed (the stages catch
\* the error of each unreadable frame)
ReadFrames(video_hash) == IF frame_dirs[video_hash] THEN "complete" ELSE "empty"

\* the result dictionary of a run
RunResult(run) ==
    [video_hash |-> run.hash,
     detections |-> run.detections,
     actions |-> run.actions,
     motion_analysis |-> run.motion,
     gemini_output |-> run.gemini]

NewRun(video_hash) ==
    [pc |-> "check", hash |-> video_hash, detections |-> "unset", actions |-> "unset",
     motion |-> "unset", gemini |-> "unset", result |-> None, effects |-> {}]

Step(r, next_pc, effect) ==
    [runs EXCEPT ![r].pc = next_pc, ![r].effects = runs[r].effects \cup {effect}]

\* cached = cache_get(video_hash); if cached: return cached
CheckCache(r) ==
    /\ runs[r].pc = "check"
    /\ LET cached == cache_get(runs[r].hash)
       IN /\ runs' = IF cached # None
                     THEN [runs EXCEPT ![r].pc = "done", ![r].result = cached]
                     ELSE [runs EXCEPT ![r].pc = "extract"]
          /\ cache_seen' = [cache_seen EXCEPT ![r] =
                               [hit |-> cached # None,
                                stores |-> Len(stores[runs[r].hash]),
                                finished |-> {q \in DOMAIN runs : runs[q].pc = "done"}]]
    /\ UNCHANGED <<cache, frame_dirs, result_files, uploads, stores>>

\* frames = extract_frames(video_path, frame_dir, fps=3)
ExtractFrames(r) ==
    /\ runs[r].pc = "extract"
    /\ r \in uploads
    /\ frame_dirs' = [frame_dirs EXCEPT ![runs[r].hash] = TRUE]
    /\ runs' = Step(r, "detect", "extract_frames")
    /\ UNCHANGED <<cache, result_files, uploads, stores, cache_seen>>

\* detections = run_detection_model(frames)
DetectObjects(r) ==
    /\ runs[r].pc = "detect"
    /\ runs' = [Step(r, "recognize", "inference") EXCEPT
                   ![r].detections = ReadFrames(runs[r].hash)]
    /\ UNCHANGED <<cache, frame_dirs, result_files, uploads, stores, cache_seen>>

\* actions = run_action_recognition(frames)
RecognizeActions(r) ==
    /\ runs[r].pc = "recognize"
    /\ runs' = [Step(r, "motion", "inference") EXCEPT
                   ![r].actions = ReadFrames(runs[r].hash)]
    /\ UNCHANGED <<cache, frame_dirs, result_files, uploads, stores, cache_seen>>

\* motion_analysis = integrate_motion_analysis(frames)
AnalyzeMotion(r) ==
    /\ runs[r].pc = "motion"
    /\ runs' = [Step(r, "describe", "inference") EXCEPT
                   ![r].motion = ReadFrames(runs[r].hash)]
    /\ UNCHANGED <<cache, frame_dirs, result_files, uploads, stores, cache_seen>>

\* events, crime_report, summary, gemini_output = call_gemini(summary), result;
\* out_file.write_text(json.dumps(result, indent=2)).  The scoring and the
\* description touch nothing but the run's own values, so they are one step
\* with the write of the result file.
SaveResult(r) ==
    /\ runs[r].pc = "describe"
    /\ \E g \in GeminiOutputs :
         \E result \in {RunResult([runs[r] EXCEPT !.gemini = g])} :
             /\ runs' = [runs EXCEPT ![r].pc = "cache_set",
                                     ![r].gemini = g,
                                     ![r].result = result,
                                     ![r].effects = @ \cup {"scoring", "result_file_write"}]
             /\ result_files' = [result_files EXCEPT ![runs[r].hash] = result]
    /\ UNCHANGED <<cache, frame_dirs, uploads, stores, cache_seen>>

\* cache_set called with what the run has before the scoring
CacheSet_BeforeScoring(r) ==
    /\ runs[r].pc = "describe"
    /\ cache' = [cache EXCEPT ![runs[r].hash] = RunResult(runs[r])]
    /\ stores' = [stores EXCEPT ![runs[r].hash] = Append(@, RunResult(runs[r]))]
    /\ runs' = Step(r, "cleanup", "cache_write")
    /\ UNCHANGED <<frame_dirs, result_files, uploads, cache_seen>>

\* cache_set(video_hash, result)
CacheSet(r) ==
    /\ runs[r].pc = "cache_set"
    /\ cache' = [cache EXCEPT ![runs[r].hash] = runs[r].result]
    /\ stores' = [stores EXCEPT ![runs[r].hash] = Append(@, runs[r].result)]
    /\ runs' = Step(r, "cleanup", "cache_write")
    /\ UNCHANGED <<frame_dirs, result_files, uploads, cache_seen>>

\* shutil.rmtree(frame_dir) if it exists; video_path.unlink(); return result
Cleanup(r) ==
    /\ runs[r].pc = "cleanup"
    /\ frame_dirs' = [frame_dirs EXCEPT ![runs[r].hash] = FALSE]
    /\ uploads' = uploads \ {r}
    /\ runs' = Step(r, "done", "cleanup")
    /\ UNCHANGED <<cache, result_files, stores, cache_seen>>

ProcessVideo(r) ==
    /\ \/ CheckCache(r)
       \/ ExtractFrames(r)
       \/ DetectObjects(r)
       \/ RecognizeActions(r)
       \/ AnalyzeMotion(r)
       \/ SaveResult(r)
       \/ CacheSet(r)
       \/ Cleanup(r)
    /\ UNCHANGED <<pc, analyzerVars, intensityVars, detectionVars, scoringVars, motionVars>>

NextPipeline == \E r \in Runs : ProcessVideo(r)

\* which video each queued run is of: runs of one video are interchangeable,
\* and so are the videos, so the runs are numbered by video and no video has
\* more runs than the video before it
VideoHashes == <<"v1", "v2">>

RunsOf(h, v) == Cardinality({r \in Runs : h[r] = v})

QueuedVideos ==
    {h \in [Runs -> 1..Len(VideoHashes)] :
        /\ \A r \in Runs \ {1} : h[r - 1] <= h[r]
        /\ \A v \in 2..Len(VideoHashes) : RunsOf(h, v) <= RunsOf(h, v - 1)}

\* upload_video has stored each run's file under its own uuid name and queued
\* analyze_video_task(video_hash, upload_path) for it
InitPipeline ==
    /\ cache = [v \in Videos |-> None]
    /\ frame_dirs = [v \in Videos |-> FALSE]
    /\ result_files = [v \in Videos |-> None]
    /\ uploads = Runs
    /\ runs \in {[r \in Runs |-> NewRun(VideoHashes[h[r]])] : h \in QueuedVideos}
    /\ stores = [v \in Videos |-> <<>>]
    /\ cache_seen = [r \in Runs |-> [hit |-> FALSE, stores |-> 0, finished |-> {}]]
    /\ pc = "start"
    /\ IdleAnalyzer
    /\ IdleIntensity
    /\ IdleDetection
    /\ IdleScoring
    /\ IdleMotion

SpecPipeline == InitPipeline /\ [][NextPipeline]_vars

-----------------------------------------------------------------------------
(* Properties of the pipeline.                                              *)

Checked(r) == runs[r].pc # "check"

Finished(r) == runs[r].pc = "done"

\* run r went through the pipeline and stored its result
RanPipeline(r) == Finished(r) /\ ~cache_seen[r].hit

\* the result of a run whose stages all read every frame of the video
IsCompleteResult(res, video_hash) ==
    /\ res # None
    /\ res.video_hash = video_hash
    /\ res.detections = "complete"
    /\ res.actions = "complete"
    /\ res.motion_analysis = "complete"

\* a call that finds a result under its hash returns that result, the one
\* stored last before the call looked, and does nothing else
HitReturnsCached(r) ==
    (Checked(r) /\ cache_seen[r].hit) =>
        /\ Finished(r)
        /\ cache_seen[r].stores > 0
        /\ runs[r].result = stores[runs[r].hash][cache_seen[r].stores]
        /\ runs[r].effects = {}

\* a call misses only when no run of its hash has stored a result yet
MissOnlyWhenNothingStored(r) ==
    (Checked(r) /\ ~cache_seen[r].hit) => cache_seen[r].stores = 0

\* C17 (amended): a process_video call that finds a result under video_hash
\* returns exactly that result and performs no frame extraction, inference,
\* scoring, cache write or result-file write; once a run of a hash has stored
\* its result every later call of that hash hits the cache, and what it
\* returns is the result stored most recently under the hash, which is the
\* first run's only if no concurrent run of the same hash stored afterwards.
C17_HitReturnsLatestStored ==
    \A r \in Runs : HitReturnsCached(r) /\ MissOnlyWhenNothingStored(r)

\* a call made after a run of the same hash had finished returns that run's result
C17_Witness ==
    \E r1, r2 \in Runs :
        /\ r1 # r2
        /\ runs[r1].hash = runs[r2].hash
        /\ RanPipeline(r1)
        /\ Finished(r2)
        /\ cache_seen[r2].hit
        /\ r1 \in cache_seen[r2].finished
        /\ runs[r2].result = runs[r1].result
        /\ runs[r2].effects = {}

\* C17 (as stated): a hit returns the cached result without side effects, and
\* after a run of a hash has completed every later call with the same hash
\* returns the result that run stored.
C17_LaterCallsReturnThatRunsResult ==
    \A r1, r2 \in Runs :
        /\ HitReturnsCached(r2)
        /\ (/\ r1 # r2
            /\ runs[r1].hash = runs[r2].hash
            /\ RanPipeline(r1)
            /\ Finished(r2)
            /\ r1 \in cache_seen[r2].finished)
           => runs[r2].result = runs[r1].result

\* C18: when two runs of the same hash both miss the cache, each of them
\* finishes with the complete result of the video, whatever the interleaving.
C18_ConcurrentRunsBothComplete ==
    \A r1, r2 \in Runs :
        (/\ r1 # r2
         /\ runs[r1].hash = runs[r2].hash
         /\ RanPipeline(r1)
         /\ RanPipeline(r2))
        => /\ IsCompleteResult(runs[r1].result, runs[r1].hash)
           /\ IsCompleteResult(runs[r2].result, runs[r2].hash)

-----------------------------------------------------------------------------
(* Specification SpecActionEvents: evaluate_unlawful_events on one clip     *)
(* whose predictions lie around the probability floors and severity bands.  *)

ActionEventLabels ==
    {"punching and stabbing", "shoplifting", "smashing", "running on treadmill",
     "opening present", "sneaking", "walking the dog", "shooting goal (soccer)"}

\* below, at and above 0.001, 0.05, 0.08 and 0.1
ActionEventProbs ==
    {Rat(7, 10000), Rat(1, 1000), Rat(1, 20), Rat(3, 50), Rat(2, 25), Rat(1, 10),
     Rat(11, 100)}

ActionEventPredictions ==
    {TopAction(l, p) : l \in ActionEventLabels, p \in ActionEventProbs}

ActionEventTopLists ==
    {top \in SeqsUpTo(ActionEventPredictions, MaxPredictions) : ValidTopActions(top)}

InitActionEvents ==
    /\ detections \in {MkDetections(<<>>), MkDetections(<<(<<Knife, PersonAt(50)>>)>>)}
    /\ actions \in {MkActions(<<top>>) : top \in ActionEventTopLists}
    /\ report = NoReport
    /\ previous_threat_level = "unset"
    /\ events = <<>>
    /\ analyzer = AnalyzerState
    /\ calls = <<>>
    /\ pc = "start"
    /\ IdleIntensity
    /\ IdleDetection
    /\ IdleMotion
    /\ IdlePipeline

SpecActionEvents == InitActionEvents /\ [][NextEvents]_vars

-----------------------------------------------------------------------------
(* Properties of the action events.                                         *)

TaxonomyCategories == {ACTION_KEYWORDS[i][1] : i \in 1..Len(ACTION_KEYWORDS)}

KeywordsOf(category) ==
    ACTION_KEYWORDS[CHOOSE i \in 1..Len(ACTION_KEYWORDS) : ACTION_KEYWORDS[i][1] = category][2]

\* one of the category's keywords occurs in the lower-cased label
CategoryMatches(category, label) ==
    \E kw \in KeywordsOf(category) : Contains(Lower(label), kw)

\* the categories of each label
CategoriesOfLabel ==
    [l \in LabelUniverse |-> {category \in TaxonomyCategories : CategoryMatches(category, l)}]

ProbabilityFloor(act) == IF act.is_crime_relevant THEN Rat(1, 1000) ELSE Rat(8, 100)

\* the probability bands of the categories
CategoryBand(category, prob) ==
    IF category \in {"possible_weapon_incident", "possible_assault_or_fight"}
    THEN (IF RGt(prob, Rat(1, 10)) THEN "critical" ELSE "high")
    ELSE IF category \in {"possible_robbery_or_snatching", "possible_break_in",
                          "possible_chase_or_escape"}
    THEN (IF RGt(prob, Rat(5, 100)) THEN "high" ELSE "medium")
    ELSE (IF RGt(prob, Rat(5, 100)) THEN "medium" ELSE "low")

ActionEventIndexes == {i \in 1..Len(events) : events[i].source = "action_recognition"}

\* the events emitted for a prediction of a clip in a category
EventsOf(clip, act, category) ==
    {i \in ActionEventIndexes :
        /\ events[i].details.clip_index = clip.clip_index
        /\ events[i].details.label = act.label
        /\ events[i].type = category}

\* C21: for each action prediction one event is emitted for every taxonomy
\* category a keyword of which occurs in the lower-cased label, provided the
\* probability is at least the floor (0.001 if crime-relevant, else 0.08), and
\* none below the floor; the severity follows the bands of the category
\* (weapon, assault/fight: critical above 0.1 else high; robbery, break-in,
\* chase: high above 0.05 else medium; others: medium above 0.05 else low).
C21_ActionEventsByCategoryAndBand ==
    Done =>
        /\ \A c \in 1..Len(actions) :
               \A j \in 1..Len(actions[c].top_actions) :
                   \A category \in TaxonomyCategories :
                       LET act == actions[c].top_actions[j]
                           emitted == EventsOf(actions[c], act, category)
                       IN IF /\ category \in CategoriesOfLabel[act.label]
                             /\ ~RLt(act.prob, ProbabilityFloor(act))
                          THEN /\ Cardinality(emitted) = 1
                               /\ \A i \in emitted :
                                      /\ events[i].severity = CategoryBand(category, act.prob)
                                      /\ events[i].confidence = act.prob
                          ELSE emitted = {}
        /\ \A i \in ActionEventIndexes :
               /\ events[i].type \in TaxonomyCategories
               /\ \E c \in 1..Len(actions) :
                      /\ events[i].details.clip_index = actions[c].clip_index
                      /\ \E j \in 1..Len(actions[c].top_actions) :
                             events[i].details.label = actions[c].top_actions[j].label

\* C21 witness: a prediction at 0.11 matching two categories gave two critical
\* events, and a crime-relevant prediction below 0.001 gave none.
C21_Witness ==
    /\ Done
    /\ Len(actions) = 1
    /\ Len(actions[1].top_actions) = 2
    /\ actions[1].top_actions[1] = TopAction("punching and stabbing", Rat(11, 100))
    /\ actions[1].top_actions[2] = TopAction("smashing", Rat(7, 10000))
    /\ Cardinality(ActionEventIndexes) = 2
    /\ \A i \in ActionEventIndexes : events[i].severity = "critical"

-----------------------------------------------------------------------------
(* Specification SpecViolence: analyze_violence_intensity on frames with    *)
(* zero, one or two persons and clips of violent and other predictions.     *)

ViolenceFrameKinds == {<<>>, <<PersonAt(0)>>, <<PersonAt(0), PersonAt(200)>>}

\* 0.5 * intensity + 0.06 is 0.15 for the probability 3/25 and 0.35 for 29/75
ViolenceClipKinds ==
    {<<>>,
     <<Walk>>,
     <<Pred("punching person (boxing)", Rat(1, 2))>>,
     <<Pred("punching person (boxing)", Rat(3, 25))>>,
     <<Pred("punching person (boxing)", Rat(29, 75))>>,
     <<Pred("punching person (boxing)", Rat(2, 5)), Pred("kicking field goal", Rat(3, 10))>>}

InitViolence ==
    /\ detections \in {MkDetections(k) : k \in SeqsUpTo(ViolenceFrameKinds, ViolenceMaxFrames)}
    /\ actions \in {MkActions(c) : c \in SeqsUpTo(ViolenceClipKinds, ViolenceMaxClips)}
    /\ report = NoReport
    /\ previous_threat_level = "unset"
    /\ pc = "start"
    /\ IdleIntensity
    /\ IdleStages

\* violence = self.analyze_violence_intensity(actions, detections)
AnalyzeViolenceIntensity ==
    /\ pc = "start"
    /\ report' = analyze_violence_intensity(actions, detections)
    /\ pc' = "done"
    /\ UNCHANGED <<detections, actions, previous_threat_level, intensityVars, stageVars>>

NextViolence == AnalyzeViolenceIntensity

SpecViolence == InitViolence /\ [][NextViolence]_vars

-----------------------------------------------------------------------------
(* Properties of the violence score.                                        *)

\* the labels that, lower-cased, hold a violence keyword
HoldsViolenceKeyword ==
    [l \in LabelUniverse |-> \E kw \in violence_keywords : Contains(Lower(l), kw)]

\* the labels that are "person" when lower-cased
IsPersonLabel == [l \in LabelUniverse |-> Lower(l) = "person"]

\* the predictions, over all clips, whose lower-cased label holds a violence keyword
ViolenceMatches ==
    {<<c, j>> \in (1..Len(actions)) \X (1..MaxPredictions + 1) :
        /\ j <= Len(actions[c].top_actions)
        /\ HoldsViolenceKeyword[actions[c].top_actions[j].label]}

\* the frames with at least two objects labelled person
MultiPersonFrames ==
    {f \in 1..Len(detections) :
        Cardinality({i \in 1..Len(detections[f].objects) :
                        IsPersonLabel[detections[f].objects[i].label]}) >= 2}

\* multi-person frames / total frames, 0 when there is no frame
MultiPersonRatio ==
    IF Len(detections) = 0 THEN Zero
    ELSE Rat(Cardinality(MultiPersonFrames), Len(detections))

MeanIntensity(violent) ==
    RDivInt(RSum([i \in 1..Len(violent) |-> violent[i].intensity]), Len(violent))

Clamp01(x) == RMax(Zero, RMin(One, x))

ViolenceScoreFormula(violent) ==
    Clamp01(RAdd(RAdd(RMul(Rat(1, 2), MeanIntensity(violent)),
                      RMul(Rat(3, 10), RMin(One, RMul(Rat(1, 5), Rat(Len(violent), 1))))),
                 RMul(Rat(1, 5), MultiPersonRatio)))

IntensityBucket(score) ==
    IF RGt(score, Rat(3, 5)) THEN "extreme"
    ELSE IF RGt(score, Rat(7, 20)) THEN "high"
    ELSE IF RGt(score, Rat(3, 20)) THEN "moderate"
    ELSE "low"

\* C22: violence_score is 0.5 * mean intensity + 0.3 * min(1, 0.2 * number of
\* violent actions) + 0.2 * (frames with two or more persons / frames),
\* clamped to [0, 1]; it is 0 exactly when no prediction matches a violence
\* keyword, whatever the frames hold; intensity_level is the bucket of the
\* score (> 0.6 extreme, > 0.35 high, > 0.15 moderate, else low).
C22_ViolenceScoreFormula ==
    Done =>
        /\ Len(report.violent_actions) = Cardinality(ViolenceMatches)
        /\ (ViolenceMatches = {}) <=> (report.violence_score = Zero)
        /\ ViolenceMatches # {} =>
               report.violence_score = ViolenceScoreFormula(report.violent_actions)
        /\ report.intensity_level = IntensityBucket(report.violence_score)

\* C22 witness: six violent predictions (the count term is capped at 0.3) and
\* a frame with two persons give an extreme score, below 1.
C22_Witness ==
    /\ Done
    /\ Len(report.violent_actions) = 6
    /\ MultiPersonFrames # {}
    /\ report.intensity_level = "extreme"
    /\ RLt(report.violence_score, One)

-----------------------------------------------------------------------------
(* Properties of the severities of a report, checked under Spec.            *)

SeverityOrder == <<"safe", "low", "medium", "high", "critical">>

SeverityEnum == {SeverityOrder[i] : i \in 1..Len(SeverityOrder)}

SeverityRank(severity) == CHOOSE i \in 1..Len(SeverityOrder) : SeverityOrder[i] = severity

\* C23: in every report each indicator's severity is one of safe, low,
\* medium, high, critical, and overall_severity is not lower in that order
\* than the severity of any indicator of crime_indicators.
C23_OverallSeverityIsOrdinalMax ==
    Done =>
        \A i \in 1..Len(report.crime_indicators) :
            /\ report.crime_indicators[i].severity \in SeverityEnum
            /\ SeverityRank(report.overall_severity)
                   >= SeverityRank(report.crime_indicators[i].severity)

(***************************************************************************)
(* Unreadable frames in analyze_motion_patterns.                            *)
(***************************************************************************)

\* the frames the loop examines: frames[:50]
ExaminedFrames ==
    SubSeq(frame_paths, 1,
           IF Len(frame_paths) < MotionFrameLimit THEN Len(frame_paths)
           ELSE MotionFrameLimit)

ExaminedReadable ==
    Cardinality({i \in 1..Len(ExaminedFrames) : ExaminedFrames[i].readable})

\* C24: a frame that cannot be read is skipped without aborting the analysis
\* and the next readable frame is differenced against the most recent readable
\* one: frames_analyzed is the number of readable frames among the first 50
\* minus 1, and the result is not-analyzed exactly when fewer than 2 of the
\* first 50 frames are readable.
C24_UnreadableFramesAreSkipped ==
    Done =>
        /\ motion_analysis.analyzed = (ExaminedReadable >= 2)
        /\ motion_analysis.analyzed =>
               motion_analysis.frames_analyzed = ExaminedReadable - 1

\* a long video with an unreadable frame among the first 50 and a readable
\* frame after them
C24_Witness ==
    /\ Done
    /\ Len(frame_paths) > MotionFrameLimit
    /\ \E i \in 1..MotionFrameLimit : ~frame_paths[i].readable
    /\ \E i \in (MotionFrameLimit + 1)..Len(frame_paths) : frame_paths[i].readable
    /\ motion_analysis.analyzed
    /\ motion_analysis.frames_analyzed = ExaminedReadable - 1

-----------------------------------------------------------------------------
(* tasks.py: analyze_video_task, the Celery task around process_video, and  *)
(* main.py: the status endpoint.  A task is a process_video run with the    *)
(* task's Celery state, its retry count and what it returned.  Celery's     *)
(* Task.retry(exc, countdown) raises Retry and re-queues the task while     *)
(* request.retries < max_retries, and raises exc once they are used up.     *)

\* @celery_app.task(bind=True, max_retries=2)
max_retries == 2
\* self.retry(exc=e, countdown=10)
RetryCountdown == 10

Tasks == 1..MaxTasks

\* the stages of process_video outside a try block, other than extract_frames
UnguardedStages == {"check", "detect", "describe", "cache_set"}

\* analyze_video_task.apply_async(args=[video_hash, str(upload_path)])
NewTask(video_hash) ==
    [pc |-> "queued", hash |-> video_hash, detections |-> "unset", actions |-> "unset",
     motion |-> "unset", gemini |-> "unset", result |-> None, effects |-> {},
     state |-> "PENDING", retries |-> 0, executions |-> 0, raised |-> "none",
     history |-> <<>>, countdown |-> 0, task_result |-> None]

ErrorMapping(error, run) == [error |-> error, job_id |-> run.hash]

\* process_video is left, by return or by an exception: its locals are gone
Leave(run) ==
    [run EXCEPT !.detections = "unset", !.actions = "unset", !.motion = "unset",
                !.gemini = "unset", !.result = None, !.effects = {}]

\* the task ends in the Celery state given, with the value it returned or
\* the exception it raised
Finish(run, state, task_result) ==
    [Leave(run) EXCEPT !.pc = "finished", !.state = state, !.task_result = task_result,
                       !.history = Append(@, run.raised)]

\* the except clauses of analyze_video_task for the exception run.raised
analyze_video_task_except(run) ==
    IF run.raised = "FileNotFoundError"
    THEN Finish(run, "SUCCESS", ErrorMapping("Video file not found", run))
    ELSE IF run.raised = "RuntimeError"
    THEN Finish(run, "SUCCESS", ErrorMapping("Video processing failed", run))
    \* self.retry(exc=e, countdown=10): with the retries used up it raises e,
    \* which is not a MaxRetriesExceededError, and the task fails with e
    ELSE IF run.retries + 1 > max_retries
    THEN Finish(run, "FAILURE", [exception |-> run.raised])
    ELSE [Leave(run) EXCEPT !.pc = "retry", !.state = "RETRY", !.retries = @ + 1,
                            !.countdown = RetryCountdown,
                            !.history = Append(@, run.raised)]

\* a stage of process_video raises: the exception leaves process_video for
\* the except clauses of analyze_video_task
Raise(r, kind) ==
    [runs EXCEPT ![r] = analyze_video_task_except([runs[r] EXCEPT !.raised = kind])]

\* the worker takes the task from the queue, for the first time or for a
\* retry whose countdown has passed, and calls process_video(job_id, filepath)
ExecuteTask(r) ==
    /\ runs[r].pc \in {"queued", "retry"}
    /\ runs' = [runs EXCEPT ![r].pc = "check", ![r].executions = @ + 1]
    /\ UNCHANGED <<cache, frame_dirs, result_files, uploads, stores, cache_seen>>

\* extract_frames raises: FileNotFoundError when the video file is not
\* there, RuntimeError when ffmpeg fails, times out or writes no frame
ExtractFramesRaises(r) ==
    /\ runs[r].pc = "extract"
    /\ runs' = Raise(r, IF r \in uploads THEN "RuntimeError" ELSE "FileNotFoundError")
    /\ UNCHANGED <<cache, frame_dirs, result_files, uploads, stores, cache_seen>>

\* cache_get, run_detection_model, the scoring and the result file write, or
\* cache_set raises; none of them is inside a try block
StageRaises(r) ==
    /\ runs[r].pc \in UnguardedStages
    /\ \E kind \in {"RuntimeError", "Exception"} : runs' = Raise(r, kind)
    /\ UNCHANGED <<cache, frame_dirs, result_files, uploads, stores, cache_seen>>

\* run_action_recognition raises: except Exception: actions = []
RecognizeActionsFails(r) ==
    /\ runs[r].pc = "recognize"
    /\ runs' = [Step(r, "motion", "inference") EXCEPT ![r].actions = "empty"]
    /\ UNCHANGED <<cache, frame_dirs, result_files, uploads, stores, cache_seen>>

\* integrate_motion_analysis raises:
\* except Exception: motion_analysis = {"analyzed": False, "error": str(e)}
AnalyzeMotionFails(r) ==
    /\ runs[r].pc = "motion"
    /\ runs' = [Step(r, "describe", "inference") EXCEPT ![r].motion = "not_analyzed"]
    /\ UNCHANGED <<cache, frame_dirs, result_files, uploads, stores, cache_seen>>


\* result = process_video(job_id, filepath); return result
TaskReturns(r) ==
    /\ runs[r].pc = "done"
    /\ runs' = [runs EXCEPT ![r] =
                   Finish([runs[r] EXCEPT !.raised = "none"], "SUCCESS", runs[r].result)]
    /\ UNCHANGED <<cache, frame_dirs, result_files, uploads, stores, cache_seen>>

\* GET /status/{task_id}
get_status(run) ==
    IF run.state = "PENDING" THEN [status |-> "queued", result |-> None]
    ELSE IF run.state = "SUCCESS" THEN [status |-> "done", result |-> run.task_result]
    ELSE IF run.state = "FAILURE" THEN [status |-> "failed", result |-> None]
    ELSE [status |-> run.state, result |-> None]

AnalyzeVideoTask(r) ==
    /\ \/ ExecuteTask(r)
       \/ CheckCache(r)
       \/ ExtractFrames(r)
       \/ ExtractFramesRaises(r)
       \/ DetectObjects(r)
       \/ RecognizeActions(r)
       \/ RecognizeActionsFails(r)
       \/ AnalyzeMotion(r)
       \/ AnalyzeMotionFails(r)
       \/ SaveResult(r)
       \/ CacheSet(r)
       \/ Cleanup(r)
       \/ StageRaises(r)
       \/ TaskReturns(r)
    /\ UNCHANGED <<pc, analyzerVars, intensityVars, detectionVars, scoringVars, motionVars>>

NextTasks == \E r \in Tasks : AnalyzeVideoTask(r)

\* the result an earlier, completed run of process_video stored for a video
EarlierResult(video_hash) ==
    RunResult([NewRun(video_hash) EXCEPT !.detections = "complete",
                                         !.actions = "complete",
                                         !.motion = "complete",
                                         !.gemini = "generated"])

\* upload_video has queued a task for each upload; the last task is of the
\* video v1 or of another one, its upload may be missing where the worker
\* runs, and v1 may have been analysed before
InitTasks ==
    /\ cache \in {[v \in Videos |-> None],
                  [v \in Videos |-> IF v = "v1" THEN EarlierResult(v) ELSE None]}
    /\ frame_dirs = [v \in Videos |-> FALSE]
    /\ result_files = cache
    /\ uploads \in {Tasks, Tasks \ {MaxTasks}}
    /\ runs \in {[r \in Tasks |-> NewTask(IF r <= k THEN "v1" ELSE "v2")] :
                    k \in {MaxTasks - 1, MaxTasks}}
    /\ stores = [v \in Videos |-> IF cache[v] = None THEN <<>> ELSE <<cache[v]>>]
    /\ cache_seen = [r \in Tasks |-> [hit |-> FALSE, stores |-> 0, finished |-> {}]]
    /\ pc = "start"
    /\ IdleAnalyzer
    /\ IdleIntensity
    /\ IdleDetection
    /\ IdleScoring
    /\ IdleMotion

SpecTasks == InitTasks /\ [][NextTasks]_vars

\* the worker keeps running the tasks it has taken or that are due
FairTasks == \A r \in Tasks : WF_vars(AnalyzeVideoTask(r))

SpecTasksFair == SpecTasks /\ FairTasks

-----------------------------------------------------------------------------
(* Retries, the cache and the reported status of a task.                    *)

TaskEnded(t) == t.pc = "finished"

\* what ended the task's last execution: "none" for a normal return
LastOutcome(t) == t.history[Len(t.history)]

\* C25: analyze_video_task never retries after a FileNotFoundError or a
\* RuntimeError (it returns an error mapping at once); after any other
\* exception it schedules a retry with a countdown of 10 seconds, at most 2
\* retries, so the pipeline is executed at most 3 times, and once the retries
\* are used up the task ends by returning the "Maximum retries exceeded"
\* error mapping.
C25_RetryPolicy ==
    \A r \in Tasks :
        LET t == runs[r]
        IN /\ t.executions <= 3
           /\ t.retries <= 2
           /\ t.state = "RETRY" => t.countdown = 10
           /\ \A k \in 1..(t.executions - 1) : t.history[k] = "Exception"
           /\ TaskEnded(t) /\ LastOutcome(t) = "FileNotFoundError" =>
                  t.task_result = ErrorMapping("Video file not found", t)
           /\ TaskEnded(t) /\ LastOutcome(t) = "RuntimeError" =>
                  t.task_result = ErrorMapping("Video processing failed", t)
           /\ TaskEnded(t) /\ LastOutcome(t) = "Exception" =>
                  /\ t.executions = 3
                  /\ t.task_result = ErrorMapping("Maximum retries exceeded", t)

\* every submitted task ends, by a return or by a failure
EveryTaskEnds == \A r \in Tasks : <>TaskEnded(runs[r])

\* a value process_video stores and returns after a full analysis
IsAnalysisResult(res, video_hash) ==
    /\ res # None
    /\ DOMAIN res = DOMAIN EarlierResult(video_hash)
    /\ res.video_hash = video_hash
    /\ res.detections # "unset"
    /\ res.actions # "unset"
    /\ res.motion_analysis # "unset"
    /\ res.gemini_output # "unset"

\* the step is cache_set at the end of a run r of the video in which every
\* stage before it completed
CompletedRunStores(r, video_hash) ==
    /\ runs[r].hash = video_hash
    /\ runs[r].pc = "cache_set"
    /\ runs'[r].pc = "cleanup"
    /\ {"extract_frames", "inference", "scoring", "result_file_write"}
           \subseteq runs[r].effects
    /\ cache'[video_hash] = runs[r].result
    /\ IsAnalysisResult(runs[r].result, video_hash)

\* the step ends an execution of r by an exception
ExecutionRaises(r) ==
    /\ Len(runs'[r].history) = Len(runs[r].history) + 1
    /\ runs'[r].history[Len(runs'[r].history)] # "none"

\* C26: the cache is written only as the last analysis step of a run in which
\* extraction, detection, scoring and the result file write completed; a run
\* that raises leaves the cache unchanged; a value read from the cache is a
\* full analysis result; a failure of action recognition or of motion
\* analysis does not end the run, and its result is cached like any other.
C26_CacheHoldsOnlyCompletedAnalyses ==
    [][ /\ \A h \in Videos :
              cache'[h] # cache[h] => \E r \in Tasks : CompletedRunStores(r, h)
        /\ \A r \in Tasks :
              /\ ExecutionRaises(r) => cache' = cache
              /\ runs[r].pc = "check" /\ runs'[r].pc = "done" =>
                     IsAnalysisResult(runs'[r].result, runs[r].hash)
              /\ runs[r].pc = "recognize" /\ runs'[r] # runs[r] =>
                     runs'[r].pc = "motion"
              /\ runs[r].pc = "motion" /\ runs'[r] # runs[r] =>
                     runs'[r].pc = "describe"
      ]_vars

\* C26 witness: the first execution raised and stored nothing; in the retry
\* action recognition and motion analysis failed, and its result is cached.
C26_Witness ==
    \E r \in Tasks :
        /\ TaskEnded(runs[r])
        /\ runs[r].history = <<"Exception", "none">>
        /\ runs[r].task_result.actions = "empty"
        /\ runs[r].task_result.motion_analysis = "not_analyzed"
        /\ cache[runs[r].hash] = runs[r].task_result
        /\ stores[runs[r].hash] = <<runs[r].task_result>>

\* C29: every task whose analysis ended in an error (file not found,
\* processing failure, retries used up) is reported with status "failed", and
\* status "done" is reported only for a completed analysis.
C29_FailuresAreReportedFailed ==
    \A r \in Tasks :
        LET t == runs[r]
        IN /\ TaskEnded(t) /\ LastOutcome(t) # "none" =>
                  get_status(t).status = "failed"
           /\ get_status(t).status = "done" =>
                  IsAnalysisResult(get_status(t).result, t.hash)

-----------------------------------------------------------------------------
(* A weapon in any frame makes the report critical.                         *)

WeaponInSomeFrame ==
    \E i \in 1..Len(detections) :
        \E j \in 1..Len(detections[i].objects) : IsWeaponObj(detections[i].objects[j])

\* C27: whenever a frame contains a weapon-like object (weapon_threat.detected
\* is true) generate_crime_report returns crime_detected = True and
\* overall_severity = "critical", whatever the threat_level and the other
\* analyzers say: the weapon indicator has confidence 0.9 and weight 1.0.
C27_WeaponMakesReportCritical ==
    Done =>
        /\ report.weapon_threat_analysis.detected = WeaponInSomeFrame
        /\ WeaponInSomeFrame =>
               /\ report.crime_detected
               /\ report.overall_severity = "critical"
               /\ \E i \in 1..Len(report.crime_indicators) :
                      /\ report.crime_indicators[i].type = "weapon_threat"
                      /\ report.crime_indicators[i].confidence = Rat(9, 10)

\* C27 witness: a lone knife in one frame and nothing else: threat_level is
\* only "medium", no other analyzer detects anything, the report is critical.
C27_Witness ==
    /\ Done
    /\ WeaponInSomeFrame
    /\ report.weapon_threat_analysis.threat_level = "medium"
    /\ ~report.violence_analysis.detected
    /\ ~report.theft_analysis.detected
    /\ ~report.suspicious_behavior_analysis.detected
    /\ Len(report.crime_indicators) = 1
    /\ report.overall_severity = "critical"

-----------------------------------------------------------------------------
(* Specification SpecProximity: frames with up to two weapons and persons   *)
(* at distances on both sides of the thresholds 200 and 300.                *)

\* a bottle at centre (dx + 50, 50)
BottleAt(dx) == Obj("bottle", Rat(1, 2), <<dx, 0, dx + 100, 100>>)

ProximityFrameKinds ==
    {<<>>, <<Knife>>, <<PersonAt(150)>>,
     <<Knife, PersonAt(199)>>, <<Knife, PersonAt(200)>>, <<Knife, PersonAt(299)>>,
     <<Knife, PersonAt(300)>>, <<PersonAt(600), Knife, PersonAt(150)>>,
     <<Knife, PersonAt(250), BottleAt(400)>>, <<BottleAt(700), PersonAt(600), Knife>>}

InitProximity ==
    /\ detections \in {MkDetections(k) : k \in SeqsUpTo(ProximityFrameKinds, ProximityMaxFrames)}
    /\ actions \in {MkActions(<<>>), MkActions(<< <<Walk>> >>)}
    /\ report = NoReport
    /\ previous_threat_level = "unset"
    /\ pc = "start"
    /\ IdleIntensity
    /\ IdleStages

SpecProximity == InitProximity /\ [][Next]_vars

\* twice the centre of a box <<x1, y1, x2, y2>>
Centre2(bbox) == <<bbox[1] + bbox[3], bbox[2] + bbox[4]>>

\* the square of twice the distance between the centres of two objects
CentreDistance(a, b) ==
    LET ca == Centre2(a.bbox)
        cb == Centre2(b.bbox)
    IN (ca[1] - cb[1]) * (ca[1] - cb[1]) + (ca[2] - cb[2]) * (ca[2] - cb[2])

PositionsOf(frame_info, Test(_)) ==
    {j \in 1..Len(frame_info.objects) : Test(frame_info.objects[j])}

\* the weapons in frames that contain a person, as <<frame, position>> pairs
WeaponsWithPerson ==
    UNION {{<<i, j>> : j \in PositionsOf(detections[i], IsWeaponObj)} :
              i \in {f \in 1..Len(detections) : PositionsOf(detections[f], IsPerson) # {}}}

\* the minimum centre distance of the weapon to a person of its frame
MinPersonDistance(w) ==
    LET frame_info == detections[w[1]]
        distances == {CentreDistance(frame_info.objects[w[2]], frame_info.objects[k]) :
                         k \in PositionsOf(frame_info, IsPerson)}
    IN CHOOSE d \in distances : \A e \in distances : d <= e

\* the weapons whose record has a distance below 200
AlertWeapons == {w \in WeaponsWithPerson : MinPersonDistance(w) < (2 * 200) * (2 * 200)}

\* pair a comes before pair b in the order of the frames and of the objects
Before(a, b) == a[1] < b[1] \/ (a[1] = b[1] /\ a[2] < b[2])

\* C28: for each weapon in a frame that also contains a person there is one
\* proximity record, with the minimum centre distance to a person of the
\* frame; proximity_alerts holds exactly the records with distance < 200, in
\* the order of the frames and weapons, and whenever proximity_alerts is not
\* empty threat_level is "critical".
C28_ProximityAlertsAreRecordsBelow200 ==
    Done =>
        LET alerts == report.weapon_threat_analysis.proximity_alerts
        IN /\ Len(alerts) = Cardinality(AlertWeapons)
           /\ \A w \in AlertWeapons :
                  LET n == Cardinality({b \in AlertWeapons : Before(b, w)}) + 1
                  IN /\ alerts[n].frame_index = detections[w[1]].frame_index
                     /\ alerts[n].weapon_type = detections[w[1]].objects[w[2]].label
                     /\ alerts[n].distance = MinPersonDistance(w)
           /\ Len(alerts) > 0 => report.weapon_threat_analysis.threat_level = "critical"

\* C28 witness: a knife whose nearest person is not the first of the frame,
\* and a frame with two weapons of which only the bottle is within 200 of the
\* person: two alerts, one of each frame.
C28_Witness ==
    /\ Done
    /\ Len(detections) = 2
    /\ detections[1].objects = <<PersonAt(600), Knife, PersonAt(150)>>
    /\ detections[2].objects = <<Knife, PersonAt(250), BottleAt(400)>>
    /\ Len(report.weapon_threat_analysis.proximity_alerts) = 2
    /\ report.weapon_threat_analysis.proximity_alerts[1].weapon_type = "knife"
    /\ report.weapon_threat_analysis.proximity_alerts[2].weapon_type = "bottle"
    /\ report.weapon_threat_analysis.proximity_alerts[2].frame_index = 1
    /\ report.weapon_threat_analysis.threat_level = "critical"

-----------------------------------------------------------------------------
(* Working files after process_video has returned.                          *)

\* run q has extracted the frames of its video and not yet removed them
HoldsFrames(q) ==
    runs[q].pc \in {"detect", "recognize", "motion", "describe", "cache_set", "cleanup"}

\* C30: every process_video call that returns normally, after the full
\* analysis or served from the cache, leaves its uploaded video file deleted,
\* and the frame directory of its hash deleted unless another run of the
\* video is using it.
C30_NoWorkingFilesAfterReturn ==
    \A r \in Runs :
        Finished(r) =>
            /\ r \notin uploads
            /\ (\A q \in Runs \ {r} : runs[q].hash = runs[r].hash => ~HoldsFrames(q))
                   => ~frame_dirs[runs[r].hash]

====
